---- MODULE Spec2Model ----
(***************************************************************************)
(* OMEMO support of the OpenClaw XMPP plugin: the key and session store    *)
(* (OmemoStore), the protocol manager (OmemoManager) and the client glue   *)
(* (XmppClient.connect / sendMessage / handleStanza).                      *)
(*                                                                         *)
(* Byte strings are sequences of small naturals, text-encoded strings      *)
(* (hex, base64) are the same sequences shifted by a fixed offset, and the *)
(* JavaScript values undefined / null are explicit "absent" values of the  *)
(* same shape as the values they stand in for.                             *)
(***************************************************************************)
EXTENDS Integers, Sequences, FiniteSets, TLC

VARIABLES
    data,           \* OmemoStore.data of the local device (in memory)
    file,           \* the persisted store record of the local account
    ret,            \* the last call on the local store and what it did
    server,         \* the PEP service: device lists and bundles
    peers,          \* the store of each device of the peer account
    enc,            \* the last encryptMessage call of the local manager
    got,            \* what each peer device got from decrypting enc
    inb,            \* the last encrypted message a peer device sent to us
    account,        \* XmppClient.account
    xmpp,           \* XmppClient.xmpp is set
    online,         \* the underlying connection has started
    omemoStore,     \* XmppClient.omemoStore is set
    omemoManager,   \* XmppClient.omemoManager is set
    pc,             \* where the running connect() call stands
    connects,       \* how many times connect() has opened a connection
    events,         \* the steps of the last connect() call, in order
    sent,           \* the last sendMessage call and the stanza it sent
    delivered,      \* the last handleStanza call and the message it emitted
                    \* (events, sent and delivered describe the client call
                    \* that ran last: each call clears the other two)
    requests,       \* the sendIq calls made so far, each with its promise
    listeners,      \* the sendIq calls whose "stanza" handler is registered
    log,            \* the log lines of the last message sent or received
    clients,        \* the channel's map from account id to its client
    made,           \* the XmppClient objects ensureClient created, in order
    callers,        \* the ensureClient calls and where each stands
    running,        \* the running flag of each account's runtime state
    stopping,       \* per account, the stopClient calls awaiting disconnect()
    iqs,            \* the XmppClient.sendIq calls made so far
    pendingIq,      \* XmppClient.pendingIq: request ids with a waiting entry
    saves,          \* the store's mutating calls started one into another's write
    norm            \* a target, and what normalizing it gave

storeVars == <<data, file, ret>>

netVars == <<server, peers>>

apiVars == <<enc, got, inb>>

clientVars ==
    <<account, xmpp, online, omemoStore, omemoManager, pc, connects, events, sent, delivered>>

iqVars == <<requests, listeners>>

\* the state of the parts that are looked at on their own
chanVars == <<clients, made, callers, running, stopping>>

\* what waits for a reply or for a write to complete
waitVars == <<iqs, pendingIq, saves>>

restVars == <<iqVars, log, chanVars, norm, waitVars>>

vars ==
    <<data, file, ret, server, peers, enc, got, inb,
      account, xmpp, online, omemoStore, omemoManager, pc, connects, events, sent, delivered,
      restVars>>

-----------------------------------------------------------------------------
(* Bounds of the model *)

\* key material is drawn from 1..MaxSeed
MaxSeed == 2
\* registration ids are drawn from 0..MaxRegId (the generator yields 0..16383)
MaxRegId == 1
\* ids used by callers of storePreKey / removePreKey beyond the generated batch
MaxExtraId == 1
\* one-time prekeys of the generated batch that get removed
MaxConsumed == 2
\* at most MaxRequests sendIq calls are made
MaxRequests == 2
\* at most MaxCallers ensureClient calls are made
MaxCallers == 2
\* at most MaxIqs sendIq calls of the client are made
MaxIqs == 3
\* at most MaxSaves mutating calls of the store are started
MaxSaves == 2
\* a target has at most MaxPad blanks before it and after it
MaxPad == 1
\* the clock of the requests advances in steps of TickSeconds
TickSeconds == 10
\* message strings have at most MaxLen characters
MaxLen == 1
\* messages sealed per session
MaxMsgs == 1
\* connections opened by one client object
MaxConnects == 1

-----------------------------------------------------------------------------
(* Program constants *)

\* number of one-time prekeys generated by ensureKeys
PreKeyBatch == 100
\* id of the signed prekey generated by ensureKeys
SignedPreKeyId == 1

-----------------------------------------------------------------------------
(* JavaScript values *)

\* data.registrationId when the field is undefined
NoReg == -1

\* a key pair that is not there (undefined)
NoKeyPair == [pubKey |-> 0, privKey |-> 0]

\* an object with no own keys
EmptyMap == [x \in {} |-> 0]

MapPut(m, k, v) == [x \in (DOMAIN m) \cup {k} |-> IF x = k THEN v ELSE m[x]]

MapDel(m, k) == [x \in (DOMAIN m) \ {k} |-> m[x]]

\* truthiness of a number-or-undefined field: undefined and 0 are falsy
TruthyNum(n) == n # NoReg /\ n # 0

\* truthiness of the serialized identity key pair: undefined is falsy
TruthyKeyPair(kp) == kp # NoKeyPair

-----------------------------------------------------------------------------
(* Key generation (KeyHelper of the Signal library, as called by the store) *)

KeySeeds == 1..MaxSeed

\* KeyHelper.generateRegistrationId(): two random bytes masked with 0x3fff,
\* zero included
RegIds == 0..MaxRegId

\* a key pair generated from the random seed s
KeyPairOf(s) == [pubKey |-> 2 * s, privKey |-> 2 * s + 1]

\* arrayBufferToHex / hexToArrayBuffer on one key: the hex text of a key is
\* the key shifted by 100000
arrayBufferToHex(b) == b + 100000

hexToArrayBuffer(h) == h - 100000

\* the stored form of a key pair: both halves hex-encoded
SerKeyPair(kp) ==
    [pubKey |-> arrayBufferToHex(kp.pubKey), privKey |-> arrayBufferToHex(kp.privKey)]

DeserKeyPair(raw) ==
    [pubKey |-> hexToArrayBuffer(raw.pubKey), privKey |-> hexToArrayBuffer(raw.privKey)]

\* KeyHelper.generatePreKey(i) with randomness s
GenPreKey(i, s) == [keyId |-> i, keyPair |-> KeyPairOf(s * 1000 + i)]

\* KeyHelper.generateSignedPreKey(identityKeyPair, id) with randomness s: the
\* signature is made with the identity private key over the public key
GenSignedPreKey(ikp, id, s) ==
    [keyId |-> id, keyPair |-> KeyPairOf(s * 1000 + 500 + id),
     signature |-> <<ikp.privKey, KeyPairOf(s * 1000 + 500 + id).pubKey>>]

-----------------------------------------------------------------------------
(* OmemoStore *)

\* the store state of the constructor and of a failed init()
EmptyData ==
    [identityKeyPair |-> NoKeyPair,
     registrationId |-> NoReg,
     sessions |-> EmptyMap,
     preKeys |-> EmptyMap,
     signedPreKeys |-> EmptyMap,
     identityKeys |-> EmptyMap]

\* the persisted record: absent, unparsable, or a JSON document
NoFile == [kind |-> "missing", content |-> EmptyData]

CorruptFile == [kind |-> "corrupt", content |-> EmptyData]

\* JSON.stringify(data): the members of the object, those whose value is
\* undefined left out
stringify(d) ==
    [k \in {"sessions", "preKeys", "signedPreKeys", "identityKeys"}
            \cup (IF d.identityKeyPair = NoKeyPair THEN {} ELSE {"identityKeyPair"})
            \cup (IF d.registrationId = NoReg THEN {} ELSE {"registrationId"}) |-> d[k]]

\* JSON.parse(content) of a document written by save(), read as store
\* state: a member that is not there reads as undefined
parse(content) ==
    [identityKeyPair |-> IF "identityKeyPair" \in DOMAIN content
                         THEN content.identityKeyPair ELSE NoKeyPair,
     registrationId |-> IF "registrationId" \in DOMAIN content
                        THEN content.registrationId ELSE NoReg,
     sessions |-> content.sessions,
     preKeys |-> content.preKeys,
     signedPreKeys |-> content.signedPreKeys,
     identityKeys |-> content.identityKeys]

FileOf(d) == [kind |-> "json", content |-> stringify(d)]

\* an init() without its catch block: a record that cannot be read makes
\* it throw
initThrowsOnBadRecord(f) == f.kind # "json"

\* init() throws: never, its catch block takes every error
initThrows(f) == FALSE

\* init(): read and parse the record; on any failure start fresh
init(f) == IF f.kind = "json" THEN parse(f.content) ELSE EmptyData

\* save(): the whole in-memory state replaces the record
save(d) == FileOf(d)

\* putIdentityKeyPair(registrationId, keyPair), before its save()
putIdentityKeyPair(d, registrationId, keyPair) ==
    [d EXCEPT !.registrationId = registrationId,
              !.identityKeyPair = SerKeyPair(keyPair)]

SerPreKey(record) == [keyId |-> record.keyId, keyPair |-> SerKeyPair(record.keyPair)]

DeserPreKey(raw) == [keyId |-> raw.keyId, keyPair |-> DeserKeyPair(raw.keyPair)]

\* storePreKey(keyId, record), before its save()
storePreKey(d, keyId, record) ==
    [d EXCEPT !.preKeys = MapPut(d.preKeys, keyId, SerPreKey(record))]

\* removePreKey(keyId), before its save()
removePreKey(d, keyId) == [d EXCEPT !.preKeys = MapDel(d.preKeys, keyId)]

SerSignedPreKey(record) ==
    [keyId |-> record.keyId, keyPair |-> SerKeyPair(record.keyPair),
     signature |-> record.signature]

DeserSignedPreKey(raw) ==
    [keyId |-> raw.keyId, keyPair |-> DeserKeyPair(raw.keyPair),
     signature |-> raw.signature]

\* storeSignedPreKey(keyId, record), before its save()
storeSignedPreKey(d, keyId, record) ==
    [d EXCEPT !.signedPreKeys = MapPut(d.signedPreKeys, keyId, SerSignedPreKey(record))]

\* removeSignedPreKey(keyId), before its save()
removeSignedPreKey(d, keyId) ==
    [d EXCEPT !.signedPreKeys = MapDel(d.signedPreKeys, keyId)]

\* getIdentityKeyPair(): the parsed pair, or undefined
getIdentityKeyPair(d) ==
    IF ~TruthyKeyPair(d.identityKeyPair) THEN NoKeyPair
    ELSE DeserKeyPair(d.identityKeyPair)

\* getLocalRegistrationId()
getLocalRegistrationId(d) == d.registrationId

\* getPreKeys(): every stored one-time prekey, parsed
getPreKeys(d) == {DeserPreKey(d.preKeys[k]) : k \in DOMAIN d.preKeys}

\* getSignedPreKeys(): every stored signed prekey, parsed
getSignedPreKeys(d) == {DeserSignedPreKey(d.signedPreKeys[k]) : k \in DOMAIN d.signedPreKeys}

\* the early return of ensureKeys(): nothing is generated when the identity
\* key pair and the registration id are truthy and a one-time prekey exists
ensureKeysSkips(d) ==
    /\ TruthyKeyPair(d.identityKeyPair)
    /\ TruthyNum(d.registrationId)
    /\ Cardinality(DOMAIN d.preKeys) > 0

\* the loop of ensureKeys(): prekeys 0..PreKeyBatch-1 written into the map
\* directly, existing entries with other ids kept
GenPreKeys(d, s) ==
    [d EXCEPT !.preKeys =
        [k \in (DOMAIN d.preKeys) \cup (0..(PreKeyBatch - 1)) |->
            IF k \in 0..(PreKeyBatch - 1) THEN SerPreKey(GenPreKey(k, s))
            ELSE d.preKeys[k]]]

\* ensureKeys() with the generator's draws g = [ik, reg, pk]: the in-memory
\* state when it returns
ensureKeys(d, g) ==
    IF ensureKeysSkips(d) THEN d
    ELSE LET d1 == putIdentityKeyPair(d, g.reg, KeyPairOf(g.ik))
             d2 == GenPreKeys(d1, g.pk)
         IN  storeSignedPreKey(d2, SignedPreKeyId,
                               GenSignedPreKey(KeyPairOf(g.ik), SignedPreKeyId, g.pk))

\* an ensureKeys() whose prekeys are written into the map with no save()
\* after them: the record is as putIdentityKeyPair wrote it
ensureKeysFileNoLastSave(d, f, g) ==
    IF ensureKeysSkips(d) THEN f
    ELSE save(putIdentityKeyPair(d, g.reg, KeyPairOf(g.ik)))

\* the record on disk when ensureKeys() returns: untouched by the early
\* return, otherwise written last by storeSignedPreKey
ensureKeysFile(d, f, g) == IF ensureKeysSkips(d) THEN f ELSE save(ensureKeys(d, g))

\* the draws of one ensureKeys() call: one seed for the key pairs, and the
\* registration id
Gens == {[ik |-> s, reg |-> r, pk |-> s] : s \in KeySeeds, r \in RegIds}

\* the store after ensureKeys() on an empty store
FullData == ensureKeys(EmptyData, [ik |-> 1, reg |-> 1, pk |-> 1])


\* a session record that is not there (loadSession returns undefined)
NoSession ==
    [sec |-> <<>>, pre |-> [spk |-> 0, opk |-> 0], pending |-> FALSE,
     sendN |-> 0, recvN |-> 0]

\* loadSession(identifier): the record, decoded from its hex form
loadSession(d, identifier) ==
    IF identifier \in DOMAIN d.sessions THEN d.sessions[identifier].hex ELSE NoSession

\* a storeSession that writes a new sessions map holding the one record
storeSessionAlone(d, identifier, record) ==
    [d EXCEPT !.sessions = MapPut(EmptyMap, identifier, [hex |-> record])]

\* storeSession(identifier, record), before its save()
storeSession(d, identifier, record) ==
    [d EXCEPT !.sessions = MapPut(d.sessions, identifier, [hex |-> record])]

\* saveIdentity(identifier, identityKey), before its save()
saveIdentity(d, identifier, identityKey) ==
    [d EXCEPT !.identityKeys = MapPut(d.identityKeys, identifier, arrayBufferToHex(identityKey))]

\* a store that trusts every presented key
isTrustedIdentityAlways(d, identifier, identityKey) == TRUE

\* isTrustedIdentity(identifier, identityKey): what it returns
isTrustedIdentity(d, identifier, identityKey) ==
    IF identifier \notin DOMAIN d.identityKeys THEN TRUE
    ELSE d.identityKeys[identifier] = arrayBufferToHex(identityKey)

\* isTrustedIdentity(identifier, identityKey): the store state it leaves
isTrustedIdentityData(d, identifier, identityKey) ==
    IF identifier \notin DOMAIN d.identityKeys THEN saveIdentity(d, identifier, identityKey)
    ELSE d

-----------------------------------------------------------------------------
(* Text encodings *)

\* Buffer.toString("base64") of a byte sequence: one character per byte here
toBase64(bytes) == [i \in 1..Len(bytes) |-> bytes[i] + 64]

\* Buffer.from(text, "base64")
fromBase64(text) == [i \in 1..Len(text) |-> text[i] - 64]

\* arrayBufferToBase64 / base64ToArrayBuffer on one key
arrayBufferToBase64(b) == b + 200000

base64ToArrayBuffer(t) == t - 200000

\* a string that may be null or undefined
NoText == [present |-> FALSE, text |-> <<>>]

Text(t) == [present |-> TRUE, text |-> t]

\* !s for a string-or-null s: null, undefined and "" are falsy
Falsy(s) == ~s.present \/ s.text = <<>>

\* message strings are sequences of the characters 1 ("a", one UTF-8 byte: 1)
\* and 2 ("e" with acute accent, two UTF-8 bytes: 2 3)
Chars == {1, 2}

RECURSIVE utf8Encode(_)
utf8Encode(str) ==
    IF str = <<>> THEN <<>>
    ELSE (IF Head(str) = 1 THEN <<1>> ELSE <<2, 3>>) \o utf8Encode(Tail(str))

\* Buffer.toString("utf8"): an ill-formed byte decodes to U+FFFD (character 4)
RECURSIVE utf8Decode(_)
utf8Decode(bytes) ==
    IF bytes = <<>> THEN <<>>
    ELSE IF Head(bytes) = 1 THEN <<1>> \o utf8Decode(Tail(bytes))
    ELSE IF Head(bytes) = 2 /\ Len(bytes) >= 2 /\ bytes[2] = 3
         THEN <<2>> \o utf8Decode(Tail(Tail(bytes)))
    ELSE <<4>> \o utf8Decode(Tail(bytes))

-----------------------------------------------------------------------------
(* AES-128-GCM of node:crypto *)

\* the keystream byte at position i
KeyStream(key, iv, i) == (key * 3 + iv[1] + i) % 8

\* the authentication tag over the ciphertext
GcmTag(key, iv, ct) == <<key, iv, ct>>

\* createCipheriv + update + final + getAuthTag
GcmEncrypt(key, iv, bytes) ==
    LET ct == [i \in 1..Len(bytes) |-> (bytes[i] + KeyStream(key, iv, i)) % 8]
    IN  [ct |-> ct, tag |-> GcmTag(key, iv, ct)]

\* a decipher whose final() accepts any tag
GcmDecryptUnchecked(key, iv, ct, tag) ==
    [ok |-> TRUE, bytes |-> [i \in 1..Len(ct) |-> (ct[i] + 8 - KeyStream(key, iv, i)) % 8]]

\* createDecipheriv + setAuthTag + update + final: final() throws on a tag
\* mismatch
GcmDecrypt(key, iv, ct, tag) ==
    IF iv = <<>> \/ tag # GcmTag(key, iv, ct) THEN [ok |-> FALSE, bytes |-> <<>>]
    ELSE [ok |-> TRUE,
          bytes |-> [i \in 1..Len(ct) |-> (ct[i] + 8 - KeyStream(key, iv, i)) % 8]]

-----------------------------------------------------------------------------
(* The Signal library (SessionBuilder, SessionCipher) as the manager uses it *)

\* SignalProtocolAddress(name, deviceId)
Address(name, deviceId) == <<name, deviceId>>

\* the secret both sides derive from the X3DH key agreement
Secret(initiatorKey, responderKey, signedPreKeyPub, preKeyPub) ==
    <<initiatorKey, responderKey, signedPreKeyPub, preKeyPub>>

\* the signature of a signed prekey verifies under the identity public key
SignatureVerifies(identityKey, publicKey, signature) ==
    signature = <<identityKey + 1, publicKey>>

\* a wrapped message: the secret it is sealed under, the prekey ids of a
\* session-initiating message, the sender's identity key, the chain counter
\* and the sealed bytes
NoBody ==
    [sec |-> <<>>, pre |-> [spk |-> 0, opk |-> 0], ik |-> 0, n |-> 0, data |-> <<>>,
     mac |-> <<>>]

\* the authentication code of a whisper message, made with the session's
\* keys over its counter and its content
Mac(sec, n, buffer) == <<sec, n, buffer>>

\* the verification of a received message's authentication code
MacVerifies(body) == body.mac = Mac(body.sec, body.n, body.data)

Failed(d) == [ok |-> FALSE, type |-> 0, body |-> NoBody, buf |-> <<>>, d |-> d]

\* SessionBuilder.processPreKey(device): trust check, signature check, key
\* agreement, session stored with its prekey pending
processPreKey(d, address, device) ==
    LET d1 == isTrustedIdentityData(d, address[1], device.identityKey)
    IN  IF ~isTrustedIdentity(d, address[1], device.identityKey) THEN Failed(d1)
        ELSE IF ~SignatureVerifies(device.identityKey, device.signedPreKey.publicKey,
                                   device.signedPreKey.signature) THEN Failed(d1)
        ELSE [Failed(d1) EXCEPT
                !.ok = TRUE,
                !.d = storeSession(d1, address,
                        [sec |-> Secret(getIdentityKeyPair(d).pubKey, device.identityKey,
                                        device.signedPreKey.publicKey, device.preKey.publicKey),
                         pre |-> [spk |-> device.signedPreKey.keyId, opk |-> device.preKey.keyId],
                         pending |-> TRUE, sendN |-> 0, recvN |-> 0])]

\* SessionCipher.encrypt(buffer): throws without a session record; the
\* message is of type 3 while the session's prekey is pending, else of type 1
SessionCipherEncrypt(d, address, buffer) ==
    IF address \notin DOMAIN d.sessions THEN Failed(d)
    ELSE LET r == loadSession(d, address)
         IN  [ok |-> TRUE,
              type |-> IF r.pending THEN 3 ELSE 1,
              body |-> [sec |-> r.sec, pre |-> r.pre,
                        ik |-> getIdentityKeyPair(d).pubKey, n |-> r.sendN, data |-> buffer,
                        mac |-> Mac(r.sec, r.sendN, buffer)],
              buf |-> <<>>,
              d |-> storeSession(d, address, [r EXCEPT !.sendN = r.sendN + 1])]

\* SessionCipher.decryptWhisperMessage(body): needs the session the message
\* was sealed under and a counter not used before
decryptWhisperMessage(d, address, body) ==
    LET r == loadSession(d, address)
    IN  IF address \notin DOMAIN d.sessions \/ body.sec = <<>> THEN Failed(d)
        ELSE IF r.sec # body.sec \/ body.n < r.recvN THEN Failed(d)
        ELSE IF ~MacVerifies(body) THEN Failed(d)
        ELSE [Failed(d) EXCEPT
                !.ok = TRUE, !.buf = body.data,
                !.d = storeSession(d, address,
                        [r EXCEPT !.recvN = body.n + 1, !.pending = FALSE])]

\* SessionCipher.decryptPreKeyWhisperMessage(body): uses the session when the
\* message belongs to it; otherwise builds one from the signed prekey and the
\* one-time prekey the message names, and removes that one-time prekey
decryptPreKeyWhisperMessage(d, address, body) ==
    LET r == loadSession(d, address)
        d1 == isTrustedIdentityData(d, address[1], body.ik)
    IN  IF body.sec = <<>> THEN Failed(d)
        ELSE IF address \in DOMAIN d.sessions /\ r.sec = body.sec
        THEN IF body.n < r.recvN \/ ~MacVerifies(body) THEN Failed(d)
             ELSE [Failed(d) EXCEPT
                     !.ok = TRUE, !.buf = body.data,
                     !.d = storeSession(d, address, [r EXCEPT !.recvN = body.n + 1])]
        ELSE IF ~isTrustedIdentity(d, address[1], body.ik) THEN Failed(d)
        ELSE IF body.pre.spk \notin DOMAIN d.signedPreKeys
                \/ body.pre.opk \notin DOMAIN d.preKeys THEN Failed(d1)
        ELSE IF body.sec # Secret(body.ik, getIdentityKeyPair(d).pubKey,
                                  DeserSignedPreKey(d.signedPreKeys[body.pre.spk]).keyPair.pubKey,
                                  DeserPreKey(d.preKeys[body.pre.opk]).keyPair.pubKey)
        THEN Failed(d1)
        ELSE IF ~MacVerifies(body) THEN Failed(d1)
        ELSE [Failed(d) EXCEPT
                !.ok = TRUE, !.buf = body.data,
                !.d = removePreKey(
                        storeSession(d1, address,
                            [sec |-> body.sec, pre |-> body.pre, pending |-> FALSE,
                             sendN |-> 0, recvN |-> body.n + 1]),
                        body.pre.opk)]

-----------------------------------------------------------------------------
(* OmemoManager *)

Lowest(S) == CHOOSE x \in S : \A y \in S : x <= y

\* how a request sent by sendIq ends: a result stanza, an error stanza (both
\* resolve the promise), or no reply within 10 s (the promise is rejected)
IqOutcomes == {"result", "error", "timeout"}

\* sendIq rejects its promise when no reply arrives in time; result and
\* error stanzas both resolve it
sendIqRejects(o) == o = "timeout"

\* a stanza as sendIq's handler looks at it: its name, its id and its type
NoStanzaIn == [is |-> "none", id |-> 0, type |-> "none"]

\* a promise: pending, or settled for good by the first resolve or reject
NewPromise == [state |-> "pending", value |-> NoStanzaIn, error |-> "none"]

resolve(p, response) ==
    IF p.state = "pending" THEN [p EXCEPT !.state = "resolved", !.value = response] ELSE p

reject(p, err) ==
    IF p.state = "pending" THEN [p EXCEPT !.state = "rejected", !.error = err] ELSE p

\* the deadline of a request, in seconds
IqTimeout == 10

\* sendIq(stanza) up to its return: the handler is registered, the stanza is
\* handed to the connection once, the timer is set
sendIq(id) ==
    [id |-> id, promise |-> NewPromise, send |-> "writing", sends |-> 1,
     timer |-> "set", elapsed |-> 0]

\* the test of sendIq's handler: an iq stanza that carries the request's id
handlerMatches(response, id) == response.is = "iq" /\ response.id = id

\* sendIq's handler on a stanza: on a match it resolves with the stanza,
\* whatever its type
handler(req, response) ==
    IF handlerMatches(response, req.id)
    THEN [req EXCEPT !.promise = resolve(req.promise, response)]
    ELSE req

\* the handlers that take themselves off the "stanza" event on response
handlerRemoves(reqs, on, response) ==
    {r \in on : handlerMatches(response, reqs[r].id)}

\* the connection's send promise is rejected: sendIq's catch callback
onSendError(req) == [req EXCEPT !.send = "failed", !.promise = reject(req.promise, "send")]

\* a timer callback that rejects and leaves the handler registered
onTimeoutRemovesNone(on, r) == {}

\* the handlers sendIq's timer callback takes off the "stanza" event
onTimeoutRemoves(on, r) == {r}

\* a timer callback that does not reject
onTimeoutSilent(req) == [req EXCEPT !.timer = "fired"]

\* sendIq's timer callback, 10 s after the call
onTimeout(req) == [req EXCEPT !.timer = "fired", !.promise = reject(req.promise, "IQ Timeout")]

\* the PEP service: the device-list node of each account, a sequence of
\* items, and the bundle node of each device
EmptyServer == [devicelist |-> EmptyMap, bundles |-> EmptyMap]

\* a numeric attribute is written as its decimal string
attr(n) == [str |-> n]

\* what parseInt gives for an attribute that is absent or not a number
NaN == -2

\* parseInt(attribute, 10)
parseInt(a) == a.str

\* an attribute that is not there
NoAttr == attr(NaN)

\* a guard that lets a store without one-time prekeys through
publishBundleThrowsUnlessPreKeys(d) ==
    \/ getIdentityKeyPair(d) = NoKeyPair
    \/ getSignedPreKeys(d) = {}

\* publishBundle(deviceId): the guard that throws "Missing keys in store"
publishBundleThrows(d) ==
    \/ getIdentityKeyPair(d) = NoKeyPair
    \/ getSignedPreKeys(d) = {}
    \/ getPreKeys(d) = {}

\* publishBundle(deviceId): the bundle element it builds: the first signed
\* prekey with its signature, the identity key and every one-time prekey
bundleElement(d) ==
    LET signedPreKey == DeserSignedPreKey(d.signedPreKeys[Lowest(DOMAIN d.signedPreKeys)])
    IN  [signedPreKeyPublic |->
            [present |-> TRUE, id |-> attr(signedPreKey.keyId),
             text |-> arrayBufferToBase64(signedPreKey.keyPair.pubKey)],
         signedPreKeySignature |-> [present |-> TRUE, text |-> [b64 |-> signedPreKey.signature]],
         identityKey |->
            [present |-> TRUE, text |-> arrayBufferToBase64(getIdentityKeyPair(d).pubKey)],
         prekeys |->
            [k \in DOMAIN d.preKeys |->
                arrayBufferToBase64(DeserPreKey(d.preKeys[k]).keyPair.pubKey)]]

\* a bundle element whose children are all missing
NoBundleElement ==
    [signedPreKeyPublic |-> [present |-> FALSE, id |-> NoAttr, text |-> 0],
     signedPreKeySignature |-> [present |-> FALSE, text |-> [b64 |-> <<>>]],
     identityKey |-> [present |-> FALSE, text |-> 0],
     prekeys |-> EmptyMap]

\* the service after a publish request to a bundle node that ended with o
publishBundle(srv, d, jid, deviceId, o) ==
    IF publishBundleThrows(d) \/ o # "result" THEN srv
    ELSE [srv EXCEPT !.bundles = MapPut(srv.bundles, <<jid, deviceId>>, bundleElement(d))]

\* publishBundle(deviceId): whether the publish request is sent
publishBundleSends(d) == ~publishBundleThrows(d)

\* the item "current" holding a <list/> with one <device/> per id
listItem(deviceIds) ==
    [list |-> TRUE, devices |-> [i \in 1..Len(deviceIds) |-> attr(deviceIds[i])]]

\* the service after a publish request of a device list that ended with o:
\* the node holds the published item when the service accepted the request
publishList(srv, jid, deviceIds, o) ==
    IF o # "result" THEN srv
    ELSE [srv EXCEPT !.devicelist = MapPut(srv.devicelist, jid, <<listItem(deviceIds)>>)]

\* overwriteDeviceList(deviceIds): the service after the publish request
overwriteDeviceList(srv, jid, deviceIds, o) == publishList(srv, jid, deviceIds, o)

\* overwriteDeviceList(deviceIds) throws only when sendIq rejects; an error
\* reply is not inspected
overwriteDeviceListThrows(o) == sendIqRejects(o)

\* a fetch that returns the attributes as parsed, not-a-number included
fetchDeviceListUnfiltered(srv, jid, o) ==
    IF o # "result" \/ jid \notin DOMAIN srv.devicelist THEN <<>>
    ELSE IF Len(srv.devicelist[jid]) = 0 \/ ~srv.devicelist[jid][1].list THEN <<>>
    ELSE [i \in 1..Len(srv.devicelist[jid][1].devices) |->
              parseInt(srv.devicelist[jid][1].devices[i])]

\* fetchDeviceList(jid): the parsed ids of the first item's list, those that
\* are not a number dropped; the empty list on an error reply, on no item, on
\* an item without a list, and when sendIq rejects (the catch block)
fetchDeviceList(srv, jid, o) ==
    IF o # "result" \/ jid \notin DOMAIN srv.devicelist THEN <<>>
    ELSE LET items == srv.devicelist[jid]
         IN  IF Len(items) = 0 THEN <<>>
             ELSE IF ~items[1].list THEN <<>>
             ELSE SelectSeq([i \in 1..Len(items[1].devices) |-> parseInt(items[1].devices[i])],
                            LAMBDA id : id # NaN)

\* fetchDeviceList(jid): its try block holds the request and the parsing and
\* its catch block returns, so nothing is thrown to the caller
fetchDeviceListThrows(o) == FALSE

\* new Set(currentDevices) with deviceId added, as Array.from lists it:
\* first occurrences in order, deviceId last unless already there
RECURSIVE setOf(_)
setOf(ids) ==
    IF Len(ids) = 0 THEN <<>>
    ELSE LET front == setOf(SubSeq(ids, 1, Len(ids) - 1))
             last == ids[Len(ids)]
         IN  IF \E i \in 1..Len(front) : front[i] = last THEN front ELSE Append(front, last)

\* publishDeviceList(deviceId): the list it publishes, from a fetch that
\* ended with o
newDevices(srv, jid, deviceId, o) == setOf(Append(fetchDeviceList(srv, jid, o), deviceId))

\* publishDeviceList(deviceId): the service after a fetch that ended with
\* o1 and a publish request that ended with o2
publishDeviceList(srv, jid, deviceId, o1, o2) ==
    publishList(srv, jid, newDevices(srv, jid, deviceId, o1), o2)

\* what fetchBundle returns when it returns undefined
NoBundle ==
    [found |-> FALSE, signedPreKeyPublic |-> 0, signedPreKeyId |-> NaN,
     signedPreKeySignature |-> [b64 |-> <<>>], identityKey |-> 0, preKeys |-> EmptyMap]

\* fetchBundle(jid, deviceId): undefined unless the reply is a result whose
\* item holds the signed prekey, its signature, the identity key and at least
\* one one-time prekey
fetchBundle(srv, jid, deviceId, o) ==
    IF o # "result" \/ <<jid, deviceId>> \notin DOMAIN srv.bundles THEN NoBundle
    ELSE LET bundle == srv.bundles[<<jid, deviceId>>]
         IN  IF \/ ~bundle.signedPreKeyPublic.present
                \/ ~bundle.signedPreKeySignature.present
                \/ ~bundle.identityKey.present
                \/ DOMAIN bundle.prekeys = {}
             THEN NoBundle
             ELSE [found |-> TRUE,
                   signedPreKeyPublic |-> bundle.signedPreKeyPublic.text,
                   signedPreKeyId |-> parseInt(bundle.signedPreKeyPublic.id),
                   signedPreKeySignature |-> bundle.signedPreKeySignature.text,
                   identityKey |-> bundle.identityKey.text,
                   preKeys |-> bundle.prekeys]

\* buildSession(remoteJid, deviceId): false when no bundle is fetched or the
\* key agreement throws; the agreement uses the first listed one-time prekey
buildSession(d, srv, remoteJid, deviceId, o) ==
    LET bundle == fetchBundle(srv, remoteJid, deviceId, o)
        first == Lowest(DOMAIN bundle.preKeys)
    IN  IF ~bundle.found THEN Failed(d)
        ELSE processPreKey(d, Address(remoteJid, deviceId),
                [identityKey |-> base64ToArrayBuffer(bundle.identityKey),
                 signedPreKey |->
                    [keyId |-> bundle.signedPreKeyId,
                     publicKey |-> base64ToArrayBuffer(bundle.signedPreKeyPublic),
                     signature |-> bundle.signedPreKeySignature.b64],
                 preKey |->
                    [keyId |-> first,
                     publicKey |-> base64ToArrayBuffer(bundle.preKeys[first])]])

\* the loop of encryptMessage over recipients[i..]: a recipient whose wrap
\* throws is logged and skipped
\* a loop without the try/catch around each recipient: the first failure
\* ends the wrapping and leaves no key entry
encryptKeysAbort(d, recipients, i, keyBuffer) ==
    IF \E j \in i..Len(recipients) :
           Address(recipients[j].jid, recipients[j].deviceId) \notin DOMAIN d.sessions
    THEN [keys |-> <<>>, d |-> d]
    ELSE [keys |-> [j \in 1..(Len(recipients) - i + 1) |->
                       [rid |-> recipients[i + j - 1].deviceId,
                        k |-> [b64 |-> NoBody], preKey |-> FALSE]],
          d |-> d]

RECURSIVE encryptKeys(_, _, _, _)
encryptKeys(d, recipients, i, keyBuffer) ==
    IF i > Len(recipients) THEN [keys |-> <<>>, d |-> d]
    ELSE LET encryptedKey ==
                 SessionCipherEncrypt(d, Address(recipients[i].jid, recipients[i].deviceId),
                                      keyBuffer)
             rest == encryptKeys(encryptedKey.d, recipients, i + 1, keyBuffer)
         IN  IF ~encryptedKey.ok THEN rest
             ELSE [rest EXCEPT !.keys =
                     <<[rid |-> recipients[i].deviceId,
                        k |-> [b64 |-> encryptedKey.body],
                        preKey |-> (encryptedKey.type = 3)]>> \o rest.keys]

\* a variant of encryptThrows that never throws: the result is returned even
\* with no key entry
encryptNeverThrows(keys) == FALSE

\* the decision of encryptMessage to throw "Could not encrypt for any device"
encryptThrows(keys) == Len(keys) = 0

NoHeader == [present |-> FALSE, sid |-> NoReg, iv |-> NoText, keys |-> <<>>]

\* encryptMessage(recipients, message) with the random key and iv drawn
encryptMessage(d, recipients, message, key, iv) ==
    LET sealed == GcmEncrypt(key, iv, utf8Encode(message))
        keyAndTag == <<key, sealed.tag>>
        wrapped == encryptKeys(d, recipients, 1, keyAndTag)
    IN  IF encryptThrows(wrapped.keys)
        THEN [ok |-> FALSE, header |-> NoHeader, payload |-> NoText, d |-> wrapped.d]
        ELSE [ok |-> TRUE,
              header |-> [present |-> TRUE,
                          sid |-> getLocalRegistrationId(wrapped.d),
                          iv |-> Text(toBase64(iv)),
                          keys |-> wrapped.keys],
              payload |-> Text(toBase64(sealed.ct)),
              d |-> wrapped.d]

\* a lookup that takes the first key entry, whoever it is addressed to
FindKeyAny(keys, myDeviceId) == IF Len(keys) = 0 THEN 0 ELSE 1

\* the key entry decryptMessage picks: the first one addressed to myDeviceId
FindKey(keys, myDeviceId) ==
    LET hits == {i \in 1..Len(keys) : keys[i].rid = myDeviceId}
    IN  IF hits = {} THEN 0 ELSE Lowest(hits)

Thrown(d) == [kind |-> "throw", text |-> <<>>, d |-> d]

\* the test of decryptMessage for a key-transport message
noPayload(encrypted) == Falsy(encrypted.payload)

\* decryptMessage(remoteJid, senderDeviceId, encrypted, myDeviceId): a string,
\* null for a key-transport message, or a thrown error
decryptMessage(d, remoteJid, senderDeviceId, encrypted, myDeviceId) ==
    LET at == FindKey(encrypted.header.keys, myDeviceId)
        keyObj == encrypted.header.keys[at]
        address == Address(remoteJid, senderDeviceId)
        unwrapped == IF keyObj.preKey
                     THEN decryptPreKeyWhisperMessage(d, address, keyObj.k.b64)
                     ELSE decryptWhisperMessage(d, address, keyObj.k.b64)
        keyAndTag == unwrapped.buf
        opened == GcmDecrypt(keyAndTag[1], fromBase64(encrypted.header.iv.text),
                             fromBase64(encrypted.payload.text), keyAndTag[2])
    IN  IF at = 0 THEN Thrown(d)
        ELSE IF ~unwrapped.ok THEN Thrown(unwrapped.d)
        ELSE IF noPayload(encrypted) THEN [kind |-> "null", text |-> <<>>, d |-> unwrapped.d]
        ELSE IF Len(keyAndTag) # 2 \/ ~encrypted.header.iv.present THEN Thrown(unwrapped.d)
        ELSE IF ~opened.ok THEN Thrown(unwrapped.d)
        ELSE [kind |-> "text", text |-> utf8Decode(opened.bytes), d |-> unwrapped.d]

-----------------------------------------------------------------------------
(* XmppClient *)

\* truthiness of an optional boolean option: "true", "false" or "undefined"
TruthyFlag(v) == v = "true"

\* resolveXmppAccount: the resolved account carries the merged account
\* configuration under config; omemoEnabled is not among its own fields
resolveXmppAccount(merged) == [omemoEnabled |-> "undefined", config |-> merged]

\* an account object built by the caller itself, with omemoEnabled set on it
directAccount(flag) == [omemoEnabled |-> flag, config |-> [omemoEnabled |-> "undefined"]]

\* the body sent next to an encrypted element ("I sent you an OMEMO encrypted
\* message but ...")
OmemoFallbackBody == <<7>>

\* the body put in place of a message that failed to decrypt
\* ("[OMEMO Decryption Failed]")
DecryptionFailedBody == <<8>>

\* an <encrypted/> child that is not there
NoElement ==
    [present |-> FALSE,
     header |-> [present |-> FALSE, sid |-> attr(NoReg), iv |-> NoText, keys |-> <<>>],
     payload |-> NoText]

\* constructOmemoElement(encryptedData): <encrypted><header sid><key rid
\* prekey/>...<iv/></header><payload/></encrypted>
constructOmemoElement(encryptedData) ==
    [present |-> TRUE,
     header |->
        [present |-> TRUE,
         sid |-> attr(encryptedData.header.sid),
         iv |-> encryptedData.header.iv,
         keys |-> [i \in 1..Len(encryptedData.header.keys) |->
                    [rid |-> attr(encryptedData.header.keys[i].rid),
                     prekey |-> IF encryptedData.header.keys[i].preKey
                                THEN "true" ELSE "undefined",
                     k |-> encryptedData.header.keys[i].k]]],
     payload |-> encryptedData.payload]

\* handleStanza: the encryptedData object read from the <encrypted/> child
parseEncrypted(encryptedElement) ==
    [header |->
        [present |-> TRUE,
         sid |-> parseInt(encryptedElement.header.sid),
         iv |-> encryptedElement.header.iv,
         keys |-> [i \in 1..Len(encryptedElement.header.keys) |->
                    [rid |-> parseInt(encryptedElement.header.keys[i].rid),
                     k |-> encryptedElement.header.keys[i].k,
                     preKey |-> encryptedElement.header.keys[i].prekey \in {"true", "1"}]]],
     payload |-> encryptedElement.payload]

\* a send target: an optional "xmpp:" prefix, the bare JID, an optional
\* resource
NoTarget == [prefix |-> FALSE, bare |-> "", resource |-> ""]

\* sendMessage: normalizedTo, the target without its "xmpp:" prefix
normalizedTo(to) == [to EXCEPT !.prefix = FALSE]

\* sendMessage: bareTo, the part of normalizedTo before the first "/"
bareTo(to) == normalizedTo(to).bare

\* sendMessage: the OMEMO block is entered
sendUsesOmemo(acct, mgr, type) ==
    TruthyFlag(acct.omemoEnabled) /\ mgr /\ type # "groupchat"

\* a variant of messageChildren that sends the encrypted element without a
\* body next to it
messageChildrenNoFallback(encryptedElement, body) ==
    [encrypted |-> encryptedElement, store |-> encryptedElement.present,
     eme |-> encryptedElement.present,
     body |-> IF encryptedElement.present THEN NoText ELSE Text(body)]

\* a variant of messageChildren that puts the original body next to the
\* encrypted element
messageChildrenWithBody(encryptedElement, body) ==
    [encrypted |-> encryptedElement, store |-> encryptedElement.present,
     eme |-> encryptedElement.present, body |-> Text(body)]

\* sendMessage: the children of the stanza: the encrypted element with the
\* store hint, the encryption marker and the fallback body, or else the body
messageChildren(encryptedElement, body) ==
    IF encryptedElement.present
    THEN [encrypted |-> encryptedElement, store |-> TRUE, eme |-> TRUE,
          body |-> Text(OmemoFallbackBody)]
    ELSE [encrypted |-> NoElement, store |-> FALSE, eme |-> FALSE, body |-> Text(body)]

\* sendMessage(to, body, {type}) on a connected client, with the outcome o of
\* the device-list request and the random key and iv of encryptMessage
sendMessage(d, acct, mgr, srv, to, body, type, o, key, iv) ==
    LET uses == sendUsesOmemo(acct, mgr, type)
        devices == IF uses THEN fetchDeviceList(srv, bareTo(to), o) ELSE <<>>
        calls == uses /\ Len(devices) > 0
        recipients == [i \in 1..Len(devices) |-> [jid |-> bareTo(to), deviceId |-> devices[i]]]
        encryptionResult == encryptMessage(d, recipients, body, key, iv)
        encryptedElement == IF calls /\ encryptionResult.ok
                            THEN constructOmemoElement(encryptionResult)
                            ELSE NoElement
        children == messageChildren(encryptedElement, body)
    IN  [out |->
            [present |-> TRUE, to |-> normalizedTo(to), type |-> type, original |-> body,
             body |-> children.body, encrypted |-> children.encrypted,
             store |-> children.store, eme |-> children.eme,
             fetched |-> uses, devices |-> devices,
             encCalled |-> calls, encOk |-> calls /\ encryptionResult.ok],
         d |-> IF calls THEN encryptionResult.d ELSE d]

\* an inbound message stanza without out-of-band URLs
NoStanza == [from |-> NoTarget, body |-> NoText, encrypted |-> NoElement]

\* handleStanza: the decryption block is entered
receiveUsesOmemo(acct, mgr, stanza) ==
    TruthyFlag(acct.omemoEnabled) /\ mgr /\ stanza.encrypted.present

\* a variant of onDecryptError that leaves the body as it arrived
onDecryptErrorKeepsBody(bodyText) == bodyText

\* handleStanza: the body set by the catch block of the decryption block
onDecryptError(bodyText) == Text(DecryptionFailedBody)

\* handleStanza(stanza) for a message stanza: whether the decryption block
\* ran and threw, what decryptMessage returned, and the message emitted
handleStanza(d, acct, mgr, stanza) ==
    LET tried == receiveUsesOmemo(acct, mgr, stanza)
        deviceId == getLocalRegistrationId(d)
        r == IF ~stanza.encrypted.header.present THEN Thrown(d)
             ELSE IF ~TruthyNum(deviceId) THEN [kind |-> "skipped", text |-> <<>>, d |-> d]
             ELSE decryptMessage(d, stanza.from.bare, parseInt(stanza.encrypted.header.sid),
                                 parseEncrypted(stanza.encrypted), deviceId)
        bodyText == IF ~tried THEN stanza.body
                    ELSE IF r.kind = "throw" THEN onDecryptError(stanza.body)
                    ELSE IF r.kind = "text" /\ r.text # <<>> THEN Text(r.text)
                    ELSE stanza.body
    IN  [out |->
            [handled |-> TRUE, stanza |-> stanza,
             tried |-> tried,
             threw |-> tried /\ r.kind = "throw",
             kind |-> IF tried THEN r.kind ELSE "none",
             emitted |-> ~Falsy(bodyText),
             body |-> IF Falsy(bodyText) THEN <<>> ELSE bodyText.text,
             encrypted |-> tried /\ ~Falsy(bodyText)],
         d |-> IF tried THEN r.d ELSE d]

\* the length log lines cut a message text to
LogSlice == 120

\* str.slice(0, n)
slice(str, n) == SubSeq(str, 1, IF Len(str) < n THEN Len(str) ELSE n)

\* a log line: who wrote it, which line it is, and the message text it
\* carries (none: the line holds ids, addresses, counts or an error only)
Entry(by, what, text) == [by |-> by, what |-> what, text |-> text]

\* the lines XmppClient.sendMessage writes for the stanza it sent
sendMessageLog(acct, out) ==
    (IF out.encOk THEN <<Entry("client", "OMEMO: Encrypted message", <<>>)>>
     ELSE IF out.encCalled THEN <<Entry("client", "OMEMO Encryption Failed", <<>>)>>
     ELSE IF out.fetched THEN <<Entry("client", "OMEMO: No devices found", <<>>)>>
     ELSE <<>>)
    \o <<IF ~TruthyFlag(acct.omemoEnabled)
          THEN Entry("client", "sent message", slice(out.original, LogSlice))
          ELSE Entry("client", "sent encrypted message", <<>>)>>

\* the line the channel's deliver callback writes after client.sendMessage
deliverLog(textPayload) ==
    <<Entry("channel", "outbound reply", slice(textPayload, LogSlice))>>

\* the lines XmppClient.handleStanza writes for a message stanza
handleStanzaLog(acct, out) ==
    (IF out.threw THEN <<Entry("client", "OMEMO Decryption Failed", <<>>)>>
     ELSE IF out.tried /\ out.kind = "text" /\ out.body # <<>>
     THEN <<Entry("client", "OMEMO: Decrypted message", <<>>)>>
     ELSE <<>>)
    \o (IF ~out.emitted THEN <<>>
        ELSE <<IF ~out.tried
               THEN Entry("client", "inbound message", slice(out.body, LogSlice))
               ELSE Entry("client", "inbound encrypted message", <<>>)>>)

\* the line the channel's handleInboundMessage writes for an emitted message
handleInboundMessageLog(out) ==
    IF out.emitted THEN <<Entry("channel", "inbound routed", <<>>)>> ELSE <<>>

\* one step of connect() as recorded in events
Step(step, ids) == [step |-> step, ids |-> ids]

-----------------------------------------------------------------------------
(* The accounts: the local one and a peer whose devices run the same code *)

Me == "a@x"

Peer == "b@x"

\* the devices of the peer account
PeerDevs == {11, 22}

\* the store of peer device dev after its own key generation (two one-time
\* prekeys, one signed prekey)
PeerData(dev) ==
    LET d1 == putIdentityKeyPair(EmptyData, dev, KeyPairOf(50 + dev))
        d2 == storePreKey(storePreKey(d1, 0, GenPreKey(0, 50 + dev)), 1, GenPreKey(1, 50 + dev))
    IN  storeSignedPreKey(d2, SignedPreKeyId,
                          GenSignedPreKey(KeyPairOf(50 + dev), SignedPreKeyId, 50 + dev))

RECURSIVE SeqsUpTo(_, _)
SeqsUpTo(S, n) ==
    IF n = 0 THEN {<<>>}
    ELSE LET shorter == SeqsUpTo(S, n - 1)
         IN  shorter \cup {Append(q, c) : q \in shorter, c \in S}

Plaintexts == SeqsUpTo(Chars, MaxLen)

\* the random content key and nonce of one encryptMessage call
AesKeys == {1, 2}

Ivs == {<<1>>}

\* recipient lists: each non-empty set of peer devices in ascending order
RECURSIVE AscSeq(_)
AscSeq(S) == IF S = {} THEN <<>> ELSE <<Lowest(S)>> \o AscSeq(S \ {Lowest(S)})

RecipientLists == {AscSeq(S) : S \in (SUBSET PeerDevs) \ {{}}}

Recipients(jid, devs) == [i \in 1..Len(devs) |-> [jid |-> jid, deviceId |-> devs[i]]]

\* the device id the local manager works under
MyDeviceId == getLocalRegistrationId(data)

\* peer device dev can open the next message of the local session with it
ValidSession(d, pd, dev) ==
    LET mine == loadSession(d, Address(Peer, dev))
        theirs == loadSession(pd, Address(Me, getLocalRegistrationId(d)))
    IN  /\ Address(Peer, dev) \in DOMAIN d.sessions
        /\ \/ /\ Address(Me, getLocalRegistrationId(d)) \in DOMAIN pd.sessions
              /\ theirs.sec = mine.sec
              /\ theirs.recvN <= mine.sendN
           \/ /\ mine.pending
              /\ Address(Me, getLocalRegistrationId(d)) \notin DOMAIN pd.sessions
              /\ mine.pre.spk \in DOMAIN pd.signedPreKeys
              /\ mine.pre.opk \in DOMAIN pd.preKeys
              /\ mine.sec = Secret(getIdentityKeyPair(d).pubKey, getIdentityKeyPair(pd).pubKey,
                                   DeserSignedPreKey(pd.signedPreKeys[mine.pre.spk]).keyPair.pubKey,
                                   DeserPreKey(pd.preKeys[mine.pre.opk]).keyPair.pubKey)

\* what the last store call was and what it returned
NoRet ==
    [op |-> "none", generated |-> FALSE, kind |-> "none", text |-> <<>>,
     name |-> "", key |-> 0, trusted |-> FALSE,
     o |-> "none", threw |-> FALSE, ids |-> <<>>, before |-> <<>>, list |-> <<>>,
     sentReq |-> FALSE, request |-> NoBundleElement, bundle |-> NoBundle]

NoEnc ==
    [called |-> FALSE, ok |-> FALSE, recipients |-> <<>>, message |-> <<>>,
     header |-> NoHeader, payload |-> NoText,
     hadSession |-> {}, hadBundle |-> {}, valid |-> {}]

NoGot ==
    [done |-> FALSE, kind |-> "none", text |-> <<>>, tampered |-> "no", emptied |-> FALSE]

NoInb ==
    [present |-> FALSE, from |-> 0, message |-> <<>>, header |-> NoHeader, payload |-> NoText]

NoSent ==
    [present |-> FALSE, to |-> NoTarget, type |-> "chat", original |-> <<>>,
     body |-> NoText, encrypted |-> NoElement, store |-> FALSE, eme |-> FALSE,
     fetched |-> FALSE, devices |-> <<>>, encCalled |-> FALSE, encOk |-> FALSE]

NoDelivered ==
    [handled |-> FALSE, stanza |-> NoStanza, tried |-> FALSE, threw |-> FALSE,
     kind |-> "none", emitted |-> FALSE, body |-> <<>>, encrypted |-> FALSE]

\* a client object right after its construction for account acct
NewClient(acct) ==
    /\ account = acct
    /\ xmpp = FALSE
    /\ online = FALSE
    /\ omemoStore = FALSE
    /\ omemoManager = FALSE
    /\ pc = "idle"
    /\ connects = 0
    /\ events = <<>>
    /\ sent = NoSent
    /\ delivered = NoDelivered

\* no request was made yet
IqIdle ==
    /\ requests = <<>>
    /\ listeners = {}

-----------------------------------------------------------------------------
(* The channel: its clients map, ensureClient, stopClient and the          *)
(* normalization of targets. A string is the sequence of its characters.  *)

AccountIds == {"default", "work"}

Callers == 1..MaxCallers

\* clients.get(accountId) of an account without a client
NoClient == 0

NoCall == [pc |-> "idle", accountId |-> "", client |-> NoClient]

\* the channel module when it is loaded: an empty clients map, no call made
ChanIdle ==
    /\ clients = [a \in AccountIds |-> NoClient]
    /\ made = <<>>
    /\ callers = [c \in Callers |-> NoCall]
    /\ running = [a \in AccountIds |-> FALSE]
    /\ stopping = [a \in AccountIds |-> 0]

\* no request of the client waits and no write is under way
WaitIdle ==
    /\ iqs = <<>>
    /\ pendingIq = {}
    /\ saves = <<>>

\* ensureClient(account) up to its await: the client of the map is returned,
\* or a new XmppClient is created and its connect() called
ensureClientCreates(map, accountId) == map[accountId] = NoClient

\* the clients that are connected for an account
Connected(accountId) ==
    {i \in DOMAIN made : made[i].accountId = accountId /\ made[i].state = "connected"}

Xmpp == <<"x", "m", "p", "p", ":">>

\* the case folding of the i flag, on the letters of the prefix
toLowerCase(c) ==
    CASE c = "X" -> "x"
      [] c = "M" -> "m"
      [] c = "P" -> "p"
      [] OTHER -> c

\* str.replace(/^xmpp:/i, ""): the prefix is removed when the string starts
\* with it, once
replace(str) ==
    IF Len(str) >= Len(Xmpp) /\ \A i \in 1..Len(Xmpp) : toLowerCase(str[i]) = Xmpp[i]
    THEN SubSeq(str, Len(Xmpp) + 1, Len(str))
    ELSE str

RECURSIVE trimStart(_)
trimStart(str) ==
    IF str # <<>> /\ Head(str) = " " THEN trimStart(Tail(str)) ELSE str

RECURSIVE trimEnd(_)
trimEnd(str) ==
    IF str # <<>> /\ str[Len(str)] = " " THEN trimEnd(SubSeq(str, 1, Len(str) - 1)) ELSE str

\* str.trim()
trim(str) == trimEnd(trimStart(str))

\* str.split("/")[0]: what stands before the first slash
RECURSIVE splitFirst(_)
splitFirst(str) ==
    IF str = <<>> \/ Head(str) = "/" THEN <<>>
    ELSE <<Head(str)>> \o splitFirst(Tail(str))

\* messaging.normalizeTarget(target)
normalizeTarget(target) == trim(replace(target))

\* sendMessage(to, ...): normalizedTo, bareTo and fullTo of a target string
normalizedToOf(to) == trim(replace(to))

bareToOf(to) == splitFirst(normalizedToOf(to))

fullToOf(to) == normalizedToOf(to)

\* a target string in parts: blanks, a prefix, the bare address, a resource
\* with its slash, blanks
NoParts == [lead |-> <<>>, prefix |-> <<>>, bare |-> <<>>, resource |-> <<>>, trail |-> <<>>]

Join(p) == p.lead \o p.prefix \o p.bare \o p.resource \o p.trail

\* no target was normalized
NoNorm ==
    [parts |-> NoParts, given |-> <<>>, by |-> "none", out |-> <<>>,
     lookup |-> <<>>, to |-> <<>>]

\* the parts that are looked at on their own have not run
RestIdle == IqIdle /\ log = <<>> /\ ChanIdle /\ norm = NoNorm /\ WaitIdle

\* write-through: a call that changed the store state has saved it
Saved(d, d2, f) == IF d2 # d THEN save(d2) ELSE f

\* the manager of a connected client: the store holds generated keys, the
\* peer's devices are listed, nothing else is published yet
InitOmemo ==
    /\ data = ensureKeys(EmptyData, [ik |-> 1, reg |-> 1, pk |-> 1])
    /\ file = save(data)
    /\ ret = NoRet
    /\ server = overwriteDeviceList(EmptyServer, Peer, AscSeq(PeerDevs), "result")
    /\ peers = [dev \in PeerDevs |-> PeerData(dev)]
    /\ enc = NoEnc
    /\ got = [dev \in PeerDevs |-> NoGot]
    /\ inb = NoInb
    /\ NewClient(directAccount("true"))
    /\ RestIdle

\* a peer device publishes its bundle, whole or without its one-time prekeys
PeerPublishBundle ==
    \E dev \in PeerDevs, whole \in BOOLEAN :
        /\ <<Peer, dev>> \notin DOMAIN server.bundles
        /\ server' = [server EXCEPT !.bundles =
                        MapPut(server.bundles, <<Peer, dev>>,
                               IF whole THEN bundleElement(peers[dev])
                               ELSE [bundleElement(peers[dev]) EXCEPT !.prekeys = EmptyMap])]
        /\ UNCHANGED <<restVars, data, file, ret, peers, enc, got, inb, clientVars>>

\* buildSession(Peer, dev) is called on the local manager
BuildSession ==
    \E dev \in PeerDevs, o \in IqOutcomes :
        LET r == buildSession(data, server, Peer, dev, o)
        IN  /\ data' = r.d
            /\ file' = Saved(data, r.d, file)
            /\ UNCHANGED <<restVars, ret, server, peers, enc, got, inb, clientVars>>

SendRoom(d) == \A a \in DOMAIN d.sessions : loadSession(d, a).sendN < MaxMsgs

\* encryptMessage(recipients, message) is called on the local manager
EncryptMessage ==
    \E devs \in RecipientLists, message \in Plaintexts, key \in AesKeys, iv \in Ivs :
        LET r == encryptMessage(data, Recipients(Peer, devs), message, key, iv)
        IN  /\ SendRoom(data)
            /\ data' = r.d
            /\ file' = Saved(data, r.d, file)
            /\ enc' = [called |-> TRUE, ok |-> r.ok, recipients |-> devs,
                       message |-> message, header |-> r.header, payload |-> r.payload,
                       hadSession |-> {dev \in PeerDevs : Address(Peer, dev) \in DOMAIN data.sessions},
                       hadBundle |-> {dev \in PeerDevs : fetchBundle(server, Peer, dev, "result").found},
                       valid |-> {dev \in PeerDevs : ValidSession(data, peers[dev], dev)}]
            /\ got' = [dev \in PeerDevs |-> NoGot]
            /\ UNCHANGED <<restVars, ret, server, peers, inb, clientVars>>

\* a peer device runs decryptMessage on the result of the last encryptMessage
PeerDecrypt ==
    \E dev \in PeerDevs :
        LET r == decryptMessage(peers[dev], Me, enc.header.sid,
                                [header |-> enc.header, payload |-> enc.payload], dev)
        IN  /\ enc.called /\ enc.ok
            /\ ~got[dev].done
            /\ got' = [got EXCEPT ![dev] = [NoGot EXCEPT !.done = TRUE, !.kind = r.kind,
                                                         !.text = r.text]]
            /\ peers' = [peers EXCEPT ![dev] = r.d]
            /\ UNCHANGED <<restVars, data, file, ret, server, enc, inb, clientVars>>

\* the byte values of the cipher
Bytes == 0..7

\* a ciphertext altered in transit: one byte changed, the end cut off, or a
\* byte added
AlteredCiphertexts(ct) ==
    {[ct EXCEPT ![p[1]] = p[2]] : p \in {q \in (1..Len(ct)) \X Bytes : q[2] # ct[q[1]]}}
        \cup {SubSeq(ct, 1, n) : n \in 0..(Len(ct) - 1)}
        \cup {Append(ct, b) : b \in Bytes}

\* the wire message with its payload ciphertext altered
AlteredPayloads(header, payload) ==
    {[header |-> header, payload |-> Text(toBase64(ct)), what |-> "payload"] :
        ct \in AlteredCiphertexts(fromBase64(payload.text))}

\* the wire message with the authentication tag altered, in each key entry
\* that carries it: the tag of another key, or one cut short
AlteredTags(header, payload) ==
    {[header |-> [header EXCEPT !.keys =
                    [i \in 1..Len(header.keys) |->
                        [header.keys[i] EXCEPT !.k.b64.data = <<@[1], tag>>]]],
      payload |-> payload, what |-> "tag"] :
        tag \in ({GcmTag(key, fromBase64(header.iv.text), fromBase64(payload.text)) :
                      key \in AesKeys} \cup {<<>>})
                 \ {header.keys[1].k.b64.data[2]}}

\* a peer device runs decryptMessage on the result of the last encryptMessage
\* after its payload ciphertext or its authentication tag was altered in
\* transit
PeerDecryptAltered ==
    \E dev \in PeerDevs :
        /\ enc.called /\ enc.ok
        /\ ~got[dev].done
        /\ \E m \in AlteredPayloads(enc.header, enc.payload) \cup AlteredTags(enc.header, enc.payload) :
              LET r == decryptMessage(peers[dev], Me, enc.header.sid,
                                      [header |-> m.header, payload |-> m.payload], dev)
              IN  /\ got' = [got EXCEPT ![dev] =
                                [done |-> TRUE, kind |-> r.kind, text |-> r.text,
                                 tampered |-> m.what, emptied |-> Falsy(m.payload)]]
                  /\ peers' = [peers EXCEPT ![dev] = r.d]
        /\ UNCHANGED <<restVars, data, file, ret, server, enc, inb, clientVars>>

NextOmemo ==
    \/ PeerPublishBundle
    \/ BuildSession
    \/ EncryptMessage
    \/ PeerDecrypt

SpecOmemo == InitOmemo /\ [][NextOmemo]_vars

-----------------------------------------------------------------------------
(* Messages altered in transit: the manager holds a session with each peer *)
(* device, built from the bundle the device published                      *)

\* the service once every peer device has published its whole bundle
PublishedServer ==
    [overwriteDeviceList(EmptyServer, Peer, AscSeq(PeerDevs), "result") EXCEPT
        !.bundles = [a \in {<<Peer, dev>> : dev \in PeerDevs} |->
                        bundleElement(PeerData(a[2]))]]

\* buildSession(Peer, dev) for each peer device in turn
RECURSIVE buildSessions(_, _, _)
buildSessions(d, srv, devs) ==
    IF Len(devs) = 0 THEN d
    ELSE buildSessions(buildSession(d, srv, Peer, devs[1], "result").d, srv,
                       SubSeq(devs, 2, Len(devs)))

InitTamper ==
    /\ data = buildSessions(FullData, PublishedServer, AscSeq(PeerDevs))
    /\ file = save(data)
    /\ ret = NoRet
    /\ server = PublishedServer
    /\ peers = [dev \in PeerDevs |-> PeerData(dev)]
    /\ enc = NoEnc
    /\ got = [dev \in PeerDevs |-> NoGot]
    /\ inb = NoInb
    /\ NewClient(directAccount("true"))
    /\ RestIdle

NextTamper ==
    \/ EncryptMessage
    \/ PeerDecrypt
    \/ PeerDecryptAltered

SpecTamper == InitTamper /\ [][NextTamper]_vars

-----------------------------------------------------------------------------
(* The store on its own: init, ensureKeys and the prekey calls of the library *)

\* the record of a store whose generated one-time prekeys have been consumed
\* by sessions down to the last one
SpentData ==
    [FullData EXCEPT !.preKeys = [k \in {PreKeyBatch - 1} |-> FullData.preKeys[k]]]

\* a store object right after its construction, its record absent,
\* unparsable, or left by an earlier run
InitStore ==
    /\ data = EmptyData
    /\ file \in {NoFile, CorruptFile, save(SpentData)}
    /\ ret = NoRet
    /\ server = EmptyServer
    /\ peers = [dev \in PeerDevs |-> PeerData(dev)]
    /\ enc = NoEnc
    /\ got = [dev \in PeerDevs |-> NoGot]
    /\ inb = NoInb
    /\ NewClient(directAccount("true"))
    /\ RestIdle

\* init() on a new store object of the same path (a restart)
StoreInit ==
    /\ data' = init(file)
    /\ ret' = [NoRet EXCEPT !.op = "init", !.threw = initThrows(file)]
    /\ UNCHANGED <<restVars, file, netVars, apiVars, clientVars>>

\* ensureKeys()
EnsureKeys ==
    \E g \in Gens :
        /\ data' = ensureKeys(data, g)
        /\ file' = ensureKeysFile(data, file, g)
        /\ ret' = [NoRet EXCEPT !.op = "ensureKeys", !.generated = ~ensureKeysSkips(data)]
        /\ UNCHANGED <<restVars, netVars, apiVars, clientVars>>

\* ids beyond the generated batch
ExtraIds == PreKeyBatch..(PreKeyBatch + MaxExtraId - 1)

\* storePreKey(keyId, record) with a fresh id
StorePreKey ==
    \E id \in ExtraIds, s \in KeySeeds :
        /\ id \notin DOMAIN data.preKeys
        /\ data' = storePreKey(data, id, GenPreKey(id, s))
        /\ file' = save(data')
        /\ ret' = [NoRet EXCEPT !.op = "storePreKey"]
        /\ UNCHANGED <<restVars, netVars, apiVars, clientVars>>

\* the ids removePreKey is called with: generated ones from the low end and
\* the last one, as sessions consume them, and the extra ones
RemovableIds ==
    (DOMAIN data.preKeys) \cap ((0..(MaxConsumed - 1)) \cup {PreKeyBatch - 1} \cup ExtraIds)

\* removePreKey(keyId)
RemovePreKey ==
    \E id \in RemovableIds :
        /\ data' = removePreKey(data, id)
        /\ file' = save(data')
        /\ ret' = [NoRet EXCEPT !.op = "removePreKey"]
        /\ UNCHANGED <<restVars, netVars, apiVars, clientVars>>

\* removeSignedPreKey(keyId)
RemoveSignedPreKey ==
    \E id \in DOMAIN data.signedPreKeys :
        /\ data' = removeSignedPreKey(data, id)
        /\ file' = save(data')
        /\ ret' = [NoRet EXCEPT !.op = "removeSignedPreKey"]
        /\ UNCHANGED <<restVars, netVars, apiVars, clientVars>>

NextStore ==
    \/ StoreInit
    \/ EnsureKeys
    \/ StorePreKey
    \/ RemovePreKey
    \/ RemoveSignedPreKey

SpecStore == InitStore /\ [][NextStore]_vars

-----------------------------------------------------------------------------
(* Every call that changes the store, one call at a time, and restarts     *)

\* putIdentityKeyPair(registrationId, keyPair)
PutIdentityKeyPair ==
    \E g \in Gens :
        /\ data' = putIdentityKeyPair(data, g.reg, KeyPairOf(g.ik))
        /\ file' = save(data')
        /\ ret' = [NoRet EXCEPT !.op = "putIdentityKeyPair"]
        /\ UNCHANGED <<restVars, netVars, apiVars, clientVars>>

\* storeSignedPreKey(keyId, record) with the id after the generated one
StoreSignedPreKey ==
    \E s \in KeySeeds :
        /\ data' = storeSignedPreKey(data, SignedPreKeyId + 1,
                                     GenSignedPreKey(KeyPairOf(s), SignedPreKeyId + 1, s))
        /\ file' = save(data')
        /\ ret' = [NoRet EXCEPT !.op = "storeSignedPreKey"]
        /\ UNCHANGED <<restVars, netVars, apiVars, clientVars>>

-----------------------------------------------------------------------------
(* The session and trusted-identity calls the library makes on a store that *)
(* holds its keys                                                           *)

InitTrust ==
    /\ data = FullData
    /\ file = save(data)
    /\ ret = NoRet
    /\ server = EmptyServer
    /\ peers = [dev \in PeerDevs |-> PeerData(dev)]
    /\ enc = NoEnc
    /\ got = [dev \in PeerDevs |-> NoGot]
    /\ inb = NoInb
    /\ NewClient(directAccount("true"))
    /\ RestIdle

\* the session records the library stores
SessionRecords == {[NoSession EXCEPT !.sec = <<1>>]}

\* storeSession(identifier, record)
StoreSession ==
    \E dev \in PeerDevs, record \in SessionRecords :
        /\ data' = storeSession(data, Address(Peer, dev), record)
        /\ file' = save(data')
        /\ ret' = [NoRet EXCEPT !.op = "storeSession"]
        /\ UNCHANGED <<restVars, netVars, apiVars, clientVars>>

\* the names identities are recorded under: the peer account, and the own
\* account for its other devices
Names == {Peer, Me}

\* the identity keys remote devices present
IdentityKeys == {KeyPairOf(1).pubKey, KeyPairOf(2).pubKey}

\* saveIdentity(identifier, identityKey)
SaveIdentity ==
    \E identifier \in Names, identityKey \in IdentityKeys :
        /\ data' = saveIdentity(data, identifier, identityKey)
        /\ file' = save(data')
        /\ ret' = [NoRet EXCEPT !.op = "saveIdentity", !.name = identifier,
                                !.key = identityKey]
        /\ UNCHANGED <<restVars, netVars, apiVars, clientVars>>

\* isTrustedIdentity(identifier, identityKey, direction)
IsTrustedIdentity ==
    \E identifier \in Names, identityKey \in IdentityKeys :
        /\ data' = isTrustedIdentityData(data, identifier, identityKey)
        /\ file' = Saved(data, data', file)
        /\ ret' = [NoRet EXCEPT !.op = "isTrustedIdentity", !.name = identifier,
                                !.key = identityKey,
                                !.trusted = isTrustedIdentity(data, identifier, identityKey)]
        /\ UNCHANGED <<restVars, netVars, apiVars, clientVars>>

NextTrust ==
    \/ StoreInit
    \/ StoreSession
    \/ SaveIdentity
    \/ IsTrustedIdentity

SpecTrust == InitTrust /\ [][NextTrust]_vars

\* the stores a call finds: a new object whose record is absent or
\* unparsable, a store with its generated keys, one whose one-time prekeys
\* are consumed down to the last, one with none left, and one that holds
\* sessions and trusted identities
WriteStores ==
    {EmptyData, FullData, SpentData, removePreKey(SpentData, PreKeyBatch - 1),
     buildSessions(FullData, PublishedServer, AscSeq(PeerDevs))}

InitWrite ==
    /\ data \in WriteStores
    /\ file \in IF data = EmptyData THEN {NoFile, CorruptFile} ELSE {save(data)}
    /\ ret = NoRet
    /\ server = EmptyServer
    /\ peers = [dev \in PeerDevs |-> PeerData(dev)]
    /\ enc = NoEnc
    /\ got = [dev \in PeerDevs |-> NoGot]
    /\ inb = NoInb
    /\ NewClient(directAccount("true"))
    /\ RestIdle

\* no call was made on the store yet
Untouched == ret.op = "none"

WriteEnsureKeys == Untouched /\ EnsureKeys

WritePutIdentityKeyPair == Untouched /\ PutIdentityKeyPair

WriteStorePreKey == Untouched /\ StorePreKey

WriteRemovePreKey == Untouched /\ RemovePreKey

WriteStoreSignedPreKey == Untouched /\ StoreSignedPreKey

WriteRemoveSignedPreKey == Untouched /\ RemoveSignedPreKey

WriteStoreSession == Untouched /\ StoreSession

WriteSaveIdentity == Untouched /\ SaveIdentity

WriteIsTrustedIdentity == Untouched /\ IsTrustedIdentity

\* after the call, a new store object runs init() on the record
Restart == ~Untouched /\ ret.op # "init" /\ StoreInit

\* one call that changes the store, then a restart
NextWrite ==
    \/ WriteEnsureKeys
    \/ WritePutIdentityKeyPair
    \/ WriteStorePreKey
    \/ WriteRemovePreKey
    \/ WriteStoreSignedPreKey
    \/ WriteRemoveSignedPreKey
    \/ WriteStoreSession
    \/ WriteSaveIdentity
    \/ WriteIsTrustedIdentity
    \/ Restart

SpecWrite == InitWrite /\ [][NextWrite]_vars

-----------------------------------------------------------------------------
(* The manager's publish and fetch calls against the PEP service, with the *)
(* account's other devices and a peer device writing to their nodes        *)

\* the stores publishBundle finds: before ensureKeys(), after it, with the
\* signed prekey removed, and with every one-time prekey consumed
PepStores ==
    {EmptyData, FullData, removeSignedPreKey(FullData, SignedPreKeyId),
     removePreKey(SpentData, PreKeyBatch - 1)}

InitPep ==
    /\ data \in PepStores
    /\ file = IF data = EmptyData THEN NoFile ELSE save(data)
    /\ ret = NoRet
    /\ server = EmptyServer
    /\ peers = [dev \in PeerDevs |-> PeerData(dev)]
    /\ enc = NoEnc
    /\ got = [dev \in PeerDevs |-> NoGot]
    /\ inb = NoInb
    /\ NewClient(directAccount("true"))
    /\ RestIdle

\* the device id the manager's caller passes: the registration id of the
\* account's store
OwnIds == {getLocalRegistrationId(FullData)}

\* the devices other clients of the account have listed
OtherDevs == {5, 7}

\* what the device-list node holds after another client wrote to it: no
\* item, an item without a list, lists of device ids, and a list with an id
\* that is not a number
NodeContents ==
    {<<>>, <<[listItem(<<>>) EXCEPT !.list = FALSE]>>,
     <<listItem(<<5>>)>>, <<listItem(<<5, 7>>)>>, <<listItem(<<5, NaN, 7>>)>>}

\* another client of the account writes the device-list node
OtherClientPublishes ==
    \E items \in NodeContents :
        /\ server' = [server EXCEPT !.devicelist = MapPut(server.devicelist, Me, items)]
        /\ ret' = NoRet
        /\ UNCHANGED <<restVars, data, file, peers, apiVars, clientVars>>

\* the lists overwriteDeviceList is called with
OverwriteLists == {<<id>> : id \in OwnIds} \cup {<<5>>, <<7, 5>>}

\* overwriteDeviceList(deviceIds)
OverwriteDeviceList ==
    \E deviceIds \in OverwriteLists, o \in IqOutcomes :
        /\ server' = overwriteDeviceList(server, Me, deviceIds, o)
        /\ ret' = [NoRet EXCEPT !.op = "overwriteDeviceList", !.o = o, !.ids = deviceIds,
                                !.threw = overwriteDeviceListThrows(o)]
        /\ UNCHANGED <<restVars, data, file, peers, apiVars, clientVars>>

\* fetchDeviceList() of the own account
FetchDeviceList ==
    \E o \in IqOutcomes :
        /\ ret' = [NoRet EXCEPT !.op = "fetchDeviceList", !.o = o,
                                !.threw = fetchDeviceListThrows(o),
                                !.list = fetchDeviceList(server, Me, o)]
        /\ UNCHANGED <<restVars, data, file, netVars, apiVars, clientVars>>

\* publishDeviceList(deviceId): the fetch ends with o1, the publish request
\* with o2
PublishDeviceList ==
    \E deviceId \in OwnIds, o1 \in IqOutcomes, o2 \in IqOutcomes :
        /\ server' = publishDeviceList(server, Me, deviceId, o1, o2)
        /\ ret' = [NoRet EXCEPT !.op = "publishDeviceList", !.o = o1, !.ids = <<deviceId>>,
                                !.before = fetchDeviceList(server, Me, "result"),
                                !.list = newDevices(server, Me, deviceId, o1),
                                !.sentReq = TRUE,
                                !.threw = sendIqRejects(o2)]
        /\ UNCHANGED <<restVars, data, file, peers, apiVars, clientVars>>

\* publishBundle(deviceId)
PublishBundle ==
    \E deviceId \in OwnIds, o \in IqOutcomes :
        /\ server' = publishBundle(server, data, Me, deviceId, o)
        /\ ret' = [NoRet EXCEPT !.op = "publishBundle", !.o = o, !.ids = <<deviceId>>,
                                !.sentReq = publishBundleSends(data),
                                !.request = IF publishBundleSends(data) THEN bundleElement(data)
                                            ELSE NoBundleElement,
                                !.threw = publishBundleThrows(data) \/ sendIqRejects(o)]
        /\ UNCHANGED <<restVars, data, file, peers, apiVars, clientVars>>

\* the peer device whose bundle is fetched
BundleDev == Lowest(PeerDevs)

\* what the peer's bundle node can hold: the whole bundle, or one lacking a
\* child element or the signed prekey's id attribute
BundleContents ==
    LET b == bundleElement(PeerData(BundleDev))
    IN  {b,
         [b EXCEPT !.signedPreKeyPublic = NoBundleElement.signedPreKeyPublic],
         [b EXCEPT !.signedPreKeyPublic.id = NoAttr],
         [b EXCEPT !.signedPreKeySignature = NoBundleElement.signedPreKeySignature],
         [b EXCEPT !.identityKey = NoBundleElement.identityKey],
         [b EXCEPT !.prekeys = EmptyMap]}

\* the peer device writes its bundle node
PeerWritesBundle ==
    \E b \in BundleContents :
        /\ server' = [server EXCEPT !.bundles = MapPut(server.bundles, <<Peer, BundleDev>>, b)]
        /\ ret' = NoRet
        /\ UNCHANGED <<restVars, data, file, peers, apiVars, clientVars>>

\* fetchBundle(Peer, deviceId)
FetchBundle ==
    \E o \in IqOutcomes :
        /\ ret' = [NoRet EXCEPT !.op = "fetchBundle", !.o = o,
                                !.bundle = fetchBundle(server, Peer, BundleDev, o)]
        /\ UNCHANGED <<restVars, data, file, netVars, apiVars, clientVars>>

NextPep ==
    \/ OtherClientPublishes
    \/ OverwriteDeviceList
    \/ FetchDeviceList
    \/ PublishDeviceList
    \/ PublishBundle
    \/ PeerWritesBundle
    \/ FetchBundle

SpecPep == InitPep /\ [][NextPep]_vars

-----------------------------------------------------------------------------
(* The client: connect, disconnect, sendMessage and handleStanza, with a    *)
(* peer account whose devices send OMEMO messages to the published bundle  *)

\* the account objects a client is constructed with: resolved from a
\* configuration that sets omemoEnabled or not, or built with the flag on it
Accounts ==
    {resolveXmppAccount([omemoEnabled |-> "true"]),
     resolveXmppAccount([omemoEnabled |-> "false"]),
     directAccount("true")}

InitClient ==
    /\ data = EmptyData
    /\ file = NoFile
    /\ ret = NoRet
    /\ server = overwriteDeviceList(EmptyServer, Peer, AscSeq(PeerDevs), "result")
    /\ peers = [dev \in PeerDevs |-> PeerData(dev)]
    /\ enc = NoEnc
    /\ got = [dev \in PeerDevs |-> NoGot]
    /\ inb = NoInb
    /\ \E acct \in Accounts : NewClient(acct)
    /\ RestIdle

\* connect() up to its first await: the new connection object is assigned to
\* this.xmpp and start() is called
ConnectBegin ==
    /\ ~xmpp /\ pc = "idle"
    /\ connects < MaxConnects
    /\ connects' = connects + 1
    /\ xmpp' = TRUE
    /\ pc' = "start"
    /\ events' = <<Step("start", <<>>)>>
    /\ sent' = NoSent
    /\ delivered' = NoDelivered
    /\ UNCHANGED <<restVars, storeVars, netVars, apiVars, account, online, omemoStore, omemoManager>>

\* start() settles: connect() rethrows a failure, returns when OMEMO is not
\* enabled on the account, and otherwise enters the OMEMO initialisation
ConnectStart ==
    \E started \in BOOLEAN :
        /\ pc = "start"
        /\ online' = started
        /\ pc' = IF started /\ TruthyFlag(account.omemoEnabled) THEN "init" ELSE "idle"
        /\ events' = IF ~started THEN Append(events, Step("throw", <<>>))
                      ELSE IF TruthyFlag(account.omemoEnabled) THEN events
                      ELSE Append(events, Step("return", <<>>))
        /\ UNCHANGED <<restVars, storeVars, netVars, apiVars, account, xmpp, omemoStore, omemoManager,
                       connects, sent, delivered>>

\* a catch block that logs the failure of the OMEMO initialisation and
\* throws it on
onOmemoInitErrorRethrows(steps) ==
    steps \o <<Step("initFailed", <<>>), Step("throw", <<>>)>>

\* the catch block around the OMEMO initialisation: the failure is logged
\* and connect() returns
onOmemoInitError(steps) ==
    steps \o <<Step("initFailed", <<>>), Step("return", <<>>)>>

\* the store directory is made, a new store object is created and its init()
\* runs; a directory that cannot be made ends the initialisation
ConnectStoreInit ==
    \E dirMade \in BOOLEAN :
        /\ pc = "init"
        /\ omemoStore' = IF dirMade THEN TRUE ELSE omemoStore
        /\ data' = IF dirMade THEN init(file) ELSE data
        /\ pc' = IF dirMade THEN "ensureKeys" ELSE "idle"
        /\ events' = IF dirMade THEN Append(events, Step("init", <<>>))
                      ELSE onOmemoInitError(Append(events, Step("init", <<>>)))
        /\ UNCHANGED <<restVars, file, ret, netVars, apiVars, account, xmpp, online,
                       omemoManager, connects, sent, delivered>>

\* ensureKeys() runs, the manager is constructed and the device id is read:
\* a falsy device id ends the initialisation
ConnectEnsureKeys ==
    \E g \in Gens :
        /\ pc = "ensureKeys"
        /\ data' = ensureKeys(data, g)
        /\ file' = ensureKeysFile(data, file, g)
        /\ omemoManager' = TRUE
        /\ pc' = IF TruthyNum(getLocalRegistrationId(data')) THEN "publishBundle" ELSE "idle"
        /\ events' = events \o <<Step("ensureKeys", <<>>), Step("manager", <<>>)>>
                        \o (IF TruthyNum(getLocalRegistrationId(data')) THEN <<>>
                            ELSE <<Step("return", <<>>)>>)
        /\ UNCHANGED <<restVars, ret, netVars, apiVars, account, xmpp, online, omemoStore,
                       connects, sent, delivered>>

\* ensureKeys() generates keys and its first write of the record fails: the
\* initialisation ends before the manager is constructed
ConnectEnsureKeysFails ==
    \E g \in Gens :
        /\ pc = "ensureKeys"
        /\ ~ensureKeysSkips(data)
        /\ data' = putIdentityKeyPair(data, g.reg, KeyPairOf(g.ik))
        /\ pc' = "idle"
        /\ events' = onOmemoInitError(Append(events, Step("ensureKeys", <<>>)))
        /\ UNCHANGED <<restVars, file, ret, netVars, apiVars, account, xmpp, online, omemoStore,
                       omemoManager, connects, sent, delivered>>

\* publishBundle(deviceId): a throw ends the initialisation in the catch block
ConnectPublishBundle ==
    \E o \in IqOutcomes :
        LET thrown == publishBundleThrows(data) \/ o = "timeout"
        IN  /\ pc = "publishBundle"
            /\ server' = publishBundle(server, data, Me, MyDeviceId, o)
            /\ pc' = IF thrown THEN "idle" ELSE "overwrite"
            /\ events' = IF thrown
                          THEN onOmemoInitError(Append(events, Step("publishBundle", <<MyDeviceId>>)))
                          ELSE Append(events, Step("publishBundle", <<MyDeviceId>>))
            /\ UNCHANGED <<restVars, storeVars, peers, apiVars, account, xmpp, online, omemoStore,
                           omemoManager, connects, sent, delivered>>

\* overwriteDeviceList([deviceId]), then connect() returns
ConnectOverwrite ==
    \E o \in IqOutcomes :
        /\ pc = "overwrite"
        /\ server' = overwriteDeviceList(server, Me, <<MyDeviceId>>, o)
        /\ pc' = "idle"
        /\ events' = IF o = "timeout"
                      THEN onOmemoInitError(
                               Append(events, Step("overwriteDeviceList", <<MyDeviceId>>)))
                      ELSE events \o <<Step("overwriteDeviceList", <<MyDeviceId>>),
                                       Step("return", <<>>)>>
        /\ UNCHANGED <<restVars, storeVars, peers, apiVars, account, xmpp, online, omemoStore,
                       omemoManager, connects, sent, delivered>>

\* disconnect(), with no connect() in flight
Disconnect ==
    /\ xmpp /\ pc = "idle"
    /\ xmpp' = FALSE
    /\ online' = FALSE
    /\ events' = <<>>
    /\ sent' = NoSent
    /\ delivered' = NoDelivered
    /\ UNCHANGED <<restVars, storeVars, netVars, apiVars, account, omemoStore, omemoManager, pc, connects>>

\* the target sendMessage is called with: "xmpp:b@x/phone"
Targets == {[prefix |-> TRUE, bare |-> Peer, resource |-> "phone"]}

\* sendMessage(to, body, {type}) on a connected client
SendMessage ==
    \E to \in Targets, body \in Plaintexts, type \in {"chat", "groupchat"},
       o \in IqOutcomes, key \in AesKeys, iv \in Ivs :
        LET r == sendMessage(data, account, omemoManager, server, to, body, type, o, key, iv)
        IN  /\ xmpp /\ online /\ pc = "idle"
            /\ SendRoom(data)
            /\ sent' = r.out
            /\ data' = r.d
            /\ file' = Saved(data, r.d, file)
            /\ events' = <<>>
            /\ delivered' = NoDelivered
            /\ UNCHANGED <<restVars, ret, netVars, apiVars, account, xmpp, online, omemoStore,
                           omemoManager, pc, connects>>

\* a peer device seals a message for each device on our published list: it
\* builds a session from our published bundle when it has none
PeerEncrypt ==
    \E dev \in PeerDevs, message \in Plaintexts, key \in AesKeys, iv \in Ivs :
        LET ids == fetchDeviceList(server, Me, "result")
            to == Address(Me, ids[1])
            pd == IF to \in DOMAIN peers[dev].sessions THEN peers[dev]
                  ELSE buildSession(peers[dev], server, Me, ids[1], "result").d
            r == encryptMessage(pd, Recipients(Me, ids), message, key, iv)
        IN  /\ online /\ pc = "idle" /\ ~inb.present
            /\ Len(ids) = 1
            /\ SendRoom(pd)
            /\ r.ok
            /\ peers' = [peers EXCEPT ![dev] = r.d]
            /\ inb' = [present |-> TRUE, from |-> dev, message |-> message,
                       header |-> r.header, payload |-> r.payload]
            /\ UNCHANGED <<restVars, storeVars, server, enc, got, clientVars>>

\* what arrives of the peer's message: the stanza as sent, one without a key
\* entry for us, one with a payload changed in transit, one whose encrypted
\* element has no header, or a key-transport stanza (the payload left out)
Shapes == {"sent", "noKey", "tampered", "noHeader", "keyTransport"}

\* the stanza of the given shape made from the peer's message m, with the
\* fallback body next to the encrypted element or without a body
StanzaOf(m, shape, withBody) ==
    LET element == constructOmemoElement([header |-> m.header, payload |-> m.payload])
    IN  [from |-> [prefix |-> FALSE, bare |-> Peer, resource |-> "phone"],
         body |-> IF withBody THEN Text(OmemoFallbackBody) ELSE NoText,
         encrypted |->
            CASE shape = "sent" -> element
              [] shape = "noKey" -> [element EXCEPT !.header.keys = <<>>]
              [] shape = "tampered" ->
                    [element EXCEPT !.payload = Text(toBase64(<<7>>) \o m.payload.text)]
              [] shape = "noHeader" -> [element EXCEPT !.header = NoElement.header]
              [] shape = "keyTransport" -> [element EXCEPT !.payload = NoText]]

\* a message stanza made from the peer's message arrives: handleStanza
HandleStanza ==
    \E shape \in Shapes, withBody \in BOOLEAN :
        LET r == handleStanza(data, account, omemoManager, StanzaOf(inb, shape, withBody))
        IN  /\ online /\ pc = "idle" /\ inb.present
            /\ delivered' = r.out
            /\ data' = r.d
            /\ file' = Saved(data, r.d, file)
            /\ inb' = NoInb
            /\ events' = <<>>
            /\ sent' = NoSent
            /\ UNCHANGED <<restVars, ret, netVars, enc, got, account, xmpp, online, omemoStore,
                           omemoManager, pc, connects>>

\* a message stanza without an encrypted element arrives: handleStanza
HandlePlain ==
    \E body \in Plaintexts :
        LET r == handleStanza(data, account, omemoManager,
                              [NoStanza EXCEPT !.from.bare = Peer, !.body = Text(body)])
        IN  /\ online /\ pc = "idle"
            /\ delivered' = r.out
            /\ events' = <<>>
            /\ sent' = NoSent
            /\ UNCHANGED <<restVars, storeVars, netVars, apiVars, account, xmpp, online, omemoStore,
                           omemoManager, pc, connects>>

NextClient ==
    \/ ConnectBegin
    \/ ConnectStart
    \/ ConnectStoreInit
    \/ ConnectEnsureKeys
    \/ ConnectEnsureKeysFails
    \/ ConnectPublishBundle
    \/ ConnectOverwrite
    \/ Disconnect
    \/ SendMessage
    \/ PeerEncrypt
    \/ HandleStanza
    \/ HandlePlain

SpecClient == InitClient /\ [][NextClient]_vars

-----------------------------------------------------------------------------
(* The log: a connected client, with OMEMO switched on or not, that sends  *)
(* the replies of the channel's deliver callback and handles the stanzas   *)
(* of a peer account                                                       *)

\* the accounts of the clients: OMEMO on, and OMEMO off
LogAccounts == {directAccount("true"), resolveXmppAccount([omemoEnabled |-> "true"])}

\* the service after connect(): our bundle and device list are published
ConnectedServer ==
    overwriteDeviceList(
        publishBundle(PublishedServer, FullData, Me, getLocalRegistrationId(FullData), "result"),
        Me, <<getLocalRegistrationId(FullData)>>, "result")

InitLog ==
    /\ \E acct \in LogAccounts :
        /\ account = acct
        /\ data = IF TruthyFlag(acct.omemoEnabled) THEN FullData ELSE EmptyData
        /\ omemoStore = TruthyFlag(acct.omemoEnabled)
        /\ omemoManager = TruthyFlag(acct.omemoEnabled)
    /\ file = save(data)
    /\ ret = NoRet
    /\ server = ConnectedServer
    /\ peers = [dev \in PeerDevs |-> PeerData(dev)]
    /\ enc = NoEnc
    /\ got = [dev \in PeerDevs |-> NoGot]
    /\ inb = NoInb
    /\ xmpp = TRUE
    /\ online = TRUE
    /\ pc = "idle"
    /\ connects = 1
    /\ events = <<>>
    /\ sent = NoSent
    /\ delivered = NoDelivered
    /\ RestIdle

\* the sender of the inbound message a reply goes to: "b@x/phone"
ReplyTargets == {[prefix |-> FALSE, bare |-> Peer, resource |-> "phone"]}

\* the channel's deliver callback for a text reply without media: the text
\* has no markdown table, so it is sent as it is
Deliver ==
    \E to \in ReplyTargets, textPayload \in Plaintexts \ {<<>>},
       o \in IqOutcomes, key \in AesKeys, iv \in Ivs :
        LET r == sendMessage(data, account, omemoManager, server, to, textPayload, "chat",
                             o, key, iv)
        IN  /\ SendRoom(data)
            /\ sent' = r.out
            /\ data' = r.d
            /\ file' = Saved(data, r.d, file)
            /\ delivered' = NoDelivered
            /\ log' = sendMessageLog(account, sent') \o deliverLog(textPayload)
            /\ UNCHANGED <<iqVars, chanVars, norm, waitVars, ret, netVars, apiVars, account, xmpp, online, omemoStore,
                           omemoManager, pc, connects, events>>

\* a message stanza made from the peer's message arrives: handleStanza, and
\* the channel's handler of the message it emits
Inbound ==
    \E shape \in {"sent", "tampered"}, withBody \in BOOLEAN :
        LET r == handleStanza(data, account, omemoManager, StanzaOf(inb, shape, withBody))
        IN  /\ inb.present
            /\ delivered' = r.out
            /\ data' = r.d
            /\ file' = Saved(data, r.d, file)
            /\ inb' = NoInb
            /\ sent' = NoSent
            /\ log' = handleStanzaLog(account, delivered') \o handleInboundMessageLog(delivered')
            /\ UNCHANGED <<iqVars, chanVars, norm, waitVars, ret, netVars, enc, got, account, xmpp, online, omemoStore,
                           omemoManager, pc, connects, events>>

\* a message stanza without an encrypted element arrives
InboundPlain ==
    \E body \in Plaintexts \ {<<>>} :
        LET r == handleStanza(data, account, omemoManager,
                              [NoStanza EXCEPT !.from.bare = Peer, !.body = Text(body)])
        IN  /\ delivered' = r.out
            /\ sent' = NoSent
            /\ log' = handleStanzaLog(account, delivered') \o handleInboundMessageLog(delivered')
            /\ UNCHANGED <<iqVars, chanVars, norm, waitVars, storeVars, netVars, apiVars, account, xmpp, online,
                           omemoStore, omemoManager, pc, connects, events>>

NextLog ==
    \/ Deliver
    \/ PeerEncrypt
    \/ Inbound
    \/ InboundPlain

SpecLog == InitLog /\ [][NextLog]_vars

-----------------------------------------------------------------------------
(* connect() and the messages sent after it, without a peer that writes    *)

NextConnect ==
    \/ ConnectBegin
    \/ ConnectStart
    \/ ConnectStoreInit
    \/ ConnectEnsureKeys
    \/ ConnectEnsureKeysFails
    \/ ConnectPublishBundle
    \/ ConnectOverwrite
    \/ Disconnect
    \/ SendMessage

SpecConnect == InitClient /\ [][NextConnect]_vars

-----------------------------------------------------------------------------
(* Messages that come in: a connected client that handles the stanzas of a *)
(* peer account, whole, changed or without payload                         *)

NextChat ==
    \/ PeerEncrypt
    \/ HandleStanza
    \/ HandlePlain

SpecChat == InitLog /\ [][NextChat]_vars

-----------------------------------------------------------------------------
(* Messages that go out: a connected client, with OMEMO switched on or     *)
(* not, that holds sessions with some of the peer's devices or with none,  *)
(* and a peer whose device list names some of its devices or none          *)

InitSend ==
    /\ \E listed \in SUBSET PeerDevs :
        server = overwriteDeviceList(ConnectedServer, Peer, AscSeq(listed), "result")
    /\ \E acct \in LogAccounts, devs \in SUBSET PeerDevs :
        /\ account = acct
        /\ data = IF TruthyFlag(acct.omemoEnabled)
                  THEN buildSessions(FullData, PublishedServer, AscSeq(devs))
                  ELSE EmptyData
        /\ omemoStore = TruthyFlag(acct.omemoEnabled)
        /\ omemoManager = TruthyFlag(acct.omemoEnabled)
    /\ file = save(data)
    /\ ret = NoRet
    /\ peers = [dev \in PeerDevs |-> PeerData(dev)]
    /\ enc = NoEnc
    /\ got = [dev \in PeerDevs |-> NoGot]
    /\ inb = NoInb
    /\ xmpp = TRUE
    /\ online = TRUE
    /\ pc = "idle"
    /\ connects = 1
    /\ events = <<>>
    /\ sent = NoSent
    /\ delivered = NoDelivered
    /\ RestIdle

NextSend == SendMessage

SpecSend == InitSend /\ [][NextSend]_vars

-----------------------------------------------------------------------------
(* Mutating calls of one store that overlap: each changes the state in     *)
(* memory, hands the whole state as text to fs.writeFile and returns when  *)
(* that write has completed; nothing orders the writes of different calls  *)

\* the mutation of a call, before its save()
mutate(d, call) ==
    IF call.op = "storeSession"
    THEN storeSession(d, call.identifier, call.value)
    ELSE saveIdentity(d, call.identifier, call.value)

\* a writeFile that leaves the file as it was
writeFileKeeps(f, text) == f

\* what fs.writeFile(path, text) leaves in the file when it completes with
\* no other write to the file under way
writeFile(f, text) == text

\* what a write can leave that ran while another write to the same file was
\* under way: its own text, or bytes of both, which is no record (Node
\* calls such use of writeFile unsafe)
writeFileOverlapped(f, text) == {writeFile(f, text), CorruptFile}

\* the calls whose write is under way
Writing == {i \in DOMAIN saves : saves[i].state = "writing"}

\* the calls after one more has begun on state d: the state is changed,
\* turned into text, and writeFile is called with the text
begun(d, call) ==
    Append([i \in DOMAIN saves |->
               IF i \in Writing THEN [saves[i] EXCEPT !.overlapped = TRUE] ELSE saves[i]],
           [op |-> call.op, identifier |-> call.identifier, value |-> call.value,
            text |-> save(mutate(d, call)), state |-> "writing",
            overlapped |-> Writing # {}])

\* storeSession(identifier, record) up to its await of the write
StoreSessionBegins ==
    \E dev \in PeerDevs, record \in SessionRecords :
        /\ Len(saves) < MaxSaves
        /\ data' = storeSession(data, Address(Peer, dev), record)
        /\ saves' = begun(data, [op |-> "storeSession", identifier |-> Address(Peer, dev),
                                 value |-> record])
        /\ UNCHANGED <<netVars, apiVars, clientVars, iqVars, log, chanVars, norm,
                       file, ret, iqs, pendingIq>>

\* saveIdentity(identifier, identityKey) up to its await of the write
SaveIdentityBegins ==
    \E identifier \in Names, identityKey \in IdentityKeys :
        /\ Len(saves) < MaxSaves
        /\ data' = saveIdentity(data, identifier, identityKey)
        /\ saves' = begun(data, [op |-> "saveIdentity", identifier |-> identifier,
                                 value |-> identityKey])
        /\ UNCHANGED <<netVars, apiVars, clientVars, iqVars, log, chanVars, norm,
                       file, ret, iqs, pendingIq>>

\* the write of a call completes, in whatever order the writes do, and the
\* call returns
WriteFileCompletes ==
    \E i \in Writing :
        /\ file' \in IF saves[i].overlapped
                     THEN writeFileOverlapped(file, saves[i].text)
                     ELSE {writeFile(file, saves[i].text)}
        /\ saves' = [saves EXCEPT ![i].state = "returned"]
        /\ UNCHANGED <<netVars, apiVars, clientVars, iqVars, log, chanVars, norm,
                       data, ret, iqs, pendingIq>>

NextSaves ==
    \/ StoreSessionBegins
    \/ SaveIdentityBegins
    \/ WriteFileCompletes

SpecSaves == InitWrite /\ [][NextSaves]_vars

-----------------------------------------------------------------------------
(* One-time prekeys: a connected client whose bundle is published, peer    *)
(* devices that establish sessions from the published bundle, and the      *)
(* bundle published again at a later connect()                             *)

InitPreKey == InitLog /\ account = directAccount("true")

\* connect() again, at its publishBundle() call: the bundle is published
\* from the store as it is now
Republish ==
    /\ ~inb.present
    /\ publishBundleSends(data)
    /\ server' = publishBundle(server, data, Me, MyDeviceId, "result")
    /\ server' # server
    /\ UNCHANGED <<restVars, storeVars, peers, apiVars, clientVars>>

NextPreKey ==
    \/ PeerEncrypt
    \/ Inbound
    \/ Republish

SpecPreKey == InitPreKey /\ [][NextPreKey]_vars

-----------------------------------------------------------------------------
(* The channel's clients: ensureClient calls of the gateway start, the     *)
(* inbound handlers and the outbound sends, which run interleaved at their *)
(* awaits, and stopClient                                                  *)

InitChannel == InitOmemo

\* ensureClient(account) is called and runs to its await of connect(), or
\* returns the client the map holds
EnsureClient ==
    \E c \in Callers, accountId \in AccountIds :
        /\ callers[c].pc = "idle"
        /\ IF ensureClientCreates(clients, accountId)
           THEN /\ made' = Append(made, [accountId |-> accountId, state |-> "connecting"])
                /\ callers' = [callers EXCEPT ![c] =
                        [pc |-> "connect", accountId |-> accountId, client |-> Len(made) + 1]]
           ELSE /\ made' = made
                /\ callers' = [callers EXCEPT ![c] =
                        [pc |-> "returned", accountId |-> accountId, client |-> clients[accountId]]]
        /\ UNCHANGED <<storeVars, netVars, apiVars, clientVars, iqVars, log, norm, waitVars,
                       clients, running, stopping>>

\* the connect() an ensureClient call awaits settles: the client is put into
\* the map and returned, or the error is thrown on
ConnectSettles ==
    \E c \in Callers, ok \in BOOLEAN :
        /\ callers[c].pc = "connect"
        /\ made' = [made EXCEPT ![callers[c].client].state =
                        IF ok THEN "connected" ELSE "failed"]
        /\ clients' = IF ok THEN [clients EXCEPT ![callers[c].accountId] = callers[c].client]
                      ELSE clients
        /\ running' = IF ok THEN [running EXCEPT ![callers[c].accountId] = TRUE] ELSE running
        /\ callers' = [callers EXCEPT ![c].pc = IF ok THEN "returned" ELSE "threw"]
        /\ UNCHANGED <<storeVars, netVars, apiVars, clientVars, iqVars, log, norm, waitVars,
                       stopping>>

\* stopClient(accountId) up to its await: the client of the map is removed
\* and its disconnect() called (without a client in the map it returns at
\* once and changes nothing)
StopClient ==
    \E accountId \in AccountIds :
        /\ clients[accountId] # NoClient
        /\ clients' = [clients EXCEPT ![accountId] = NoClient]
        /\ made' = [made EXCEPT ![clients[accountId]].state = "stopped"]
        /\ stopping' = [stopping EXCEPT ![accountId] = stopping[accountId] + 1]
        /\ UNCHANGED <<storeVars, netVars, apiVars, clientVars, iqVars, log, norm, waitVars,
                       callers, running>>

\* the disconnect() a stopClient call awaits settles: the runtime state is
\* marked as not running
StopSettles ==
    \E accountId \in AccountIds :
        /\ stopping[accountId] > 0
        /\ stopping' = [stopping EXCEPT ![accountId] = stopping[accountId] - 1]
        /\ running' = [running EXCEPT ![accountId] = FALSE]
        /\ UNCHANGED <<storeVars, netVars, apiVars, clientVars, iqVars, log, norm, waitVars,
                       clients, made, callers>>

NextChannel ==
    \/ EnsureClient
    \/ ConnectSettles
    \/ StopClient
    \/ StopSettles

SpecChannel == InitChannel /\ [][NextChannel]_vars

-----------------------------------------------------------------------------
(* Targets: target strings with and without blanks, prefix and resource,   *)
(* normalized by the channel and by sendMessage                            *)

Blanks(n) == [i \in 1..n |-> " "]

Pads == {Blanks(n) : n \in 0..MaxPad}

Prefixes == {<<>>, Xmpp, <<"X", "M", "P", "P", ":">>, <<"X", "m", "p", "p", ":">>}

\* "u@x", and an address that starts with a letter of the prefix
Bares == {<<"u", "@", "x">>, <<"x", "@", "u">>}

Resources == {<<>>, <<"/", "r">>}

TargetParts ==
    [lead : Pads, prefix : Prefixes, bare : Bares, resource : Resources, trail : Pads]

InitTarget ==
    /\ data = EmptyData
    /\ file = NoFile
    /\ ret = NoRet
    /\ server = EmptyServer
    /\ peers = [dev \in PeerDevs |-> PeerData(dev)]
    /\ enc = NoEnc
    /\ got = [dev \in PeerDevs |-> NoGot]
    /\ inb = NoInb
    /\ NewClient(directAccount("true"))
    /\ IqIdle /\ log = <<>> /\ ChanIdle /\ WaitIdle
    /\ norm \in {[NoNorm EXCEPT !.parts = p, !.given = Join(p)] : p \in TargetParts}

\* the channel normalizes the target
NormalizeTarget ==
    /\ norm.by = "none"
    /\ norm' = [norm EXCEPT !.by = "normalizeTarget", !.out = normalizeTarget(norm.given)]
    /\ UNCHANGED <<storeVars, netVars, apiVars, clientVars, iqVars, log, chanVars, waitVars>>

\* sendMessage(to, ...) with the target: the address the device list is
\* fetched for and the recipients are made with, and the stanza's address
SendMessageTo ==
    /\ norm.by = "none"
    /\ norm' = [norm EXCEPT !.by = "sendMessage",
                            !.out = normalizedToOf(norm.given),
                            !.lookup = bareToOf(norm.given),
                            !.to = fullToOf(norm.given)]
    /\ UNCHANGED <<storeVars, netVars, apiVars, clientVars, iqVars, log, chanVars, waitVars>>

NextTarget ==
    \/ NormalizeTarget
    \/ SendMessageTo

SpecTarget == InitTarget /\ [][NextTarget]_vars

-----------------------------------------------------------------------------
(* The manager's requests: sendIq calls, the connection's send promises,   *)
(* the stanzas that come in and the timers                                 *)

\* the ids requests are sent under: the callers give none, so each request
\* gets a random one, taken to differ from the others
IqIds == 1..MaxRequests

\* the stanzas the connection emits
InboundStanzas ==
    {[is |-> "iq", id |-> i, type |-> t] : i \in IqIds, t \in {"result", "error"}}
        \cup {[is |-> "message", id |-> Lowest(IqIds), type |-> "chat"]}

InitIq == InitOmemo

\* sendIq(stanza) is called
SendIq ==
    \E id \in {Len(requests) + 1} :
        /\ Len(requests) < MaxRequests
        /\ requests' = Append(requests, sendIq(id))
        /\ listeners' = listeners \cup {Len(requests) + 1}
        /\ UNCHANGED <<storeVars, netVars, apiVars, clientVars, log, chanVars, norm, waitVars>>

\* the connection's send promise of a request is fulfilled
SendDone ==
    \E r \in DOMAIN requests :
        /\ requests[r].send = "writing"
        /\ requests' = [requests EXCEPT ![r].send = "sent"]
        /\ UNCHANGED <<storeVars, netVars, apiVars, clientVars, log, chanVars, norm, waitVars, listeners>>

\* the connection's send promise of a request is rejected
SendError ==
    \E r \in DOMAIN requests :
        /\ requests[r].send = "writing"
        /\ requests' = [requests EXCEPT ![r] = onSendError(@)]
        /\ listeners' = listeners \ {r}
        /\ UNCHANGED <<storeVars, netVars, apiVars, clientVars, log, chanVars, norm, waitVars>>

\* the connection emits a stanza to every registered handler
StanzaIn ==
    \E response \in InboundStanzas :
        /\ listeners # {}
        /\ requests' = [r \in DOMAIN requests |->
                            IF r \in listeners THEN handler(requests[r], response)
                            ELSE requests[r]]
        /\ listeners' = listeners \ handlerRemoves(requests, listeners, response)
        /\ UNCHANGED <<storeVars, netVars, apiVars, clientVars, log, chanVars, norm, waitVars>>

\* a timer is due
Due(req) == req.timer = "set" /\ req.elapsed >= IqTimeout

\* time passes; a timer that is due runs before time passes again
Tick ==
    /\ \E r \in DOMAIN requests : requests[r].timer = "set"
    /\ \A r \in DOMAIN requests : ~Due(requests[r])
    /\ requests' = [r \in DOMAIN requests |->
                        IF requests[r].timer = "set"
                        THEN [requests[r] EXCEPT !.elapsed = @ + TickSeconds]
                        ELSE requests[r]]
    /\ UNCHANGED <<storeVars, netVars, apiVars, clientVars, log, chanVars, norm, waitVars, listeners>>

\* the timer of a request runs its callback
TimerFires ==
    \E r \in DOMAIN requests :
        /\ Due(requests[r])
        /\ requests' = [requests EXCEPT ![r] = onTimeout(@)]
        /\ listeners' = listeners \ onTimeoutRemoves(listeners, r)
        /\ UNCHANGED <<storeVars, netVars, apiVars, clientVars, log, chanVars, norm, waitVars>>

NextIq ==
    \/ SendIq
    \/ SendDone
    \/ SendError
    \/ StanzaIn
    \/ Tick
    \/ TimerFires

\* the event loop runs every timer that is due, and time passes
SpecIq == InitIq /\ [][NextIq]_vars /\ WF_vars(Tick) /\ WF_vars(TimerFires)

-----------------------------------------------------------------------------
(* The client's own requests (XmppClient.sendIq, used for the discovery of *)
(* the upload service and for upload slots): a map of pending requests by  *)
(* id, filled by sendIq and emptied by handleStanza                        *)

InitUpload == InitLog

\* the ids of the iq stanzas that can come in: those of the requests and one
\* that no request has
InboundIqIds == 1..(MaxIqs + 1)

\* the promise of the request with this id settles as `state`, unless it has
\* settled before
settle(qs, id, state) ==
    [i \in DOMAIN qs |->
        IF qs[i].id = id /\ qs[i].state = "waiting"
        THEN [qs[i] EXCEPT !.state = state] ELSE qs[i]]

\* sendIq(stanza) on a connected client: the stanza gets a fresh id, the
\* promise's resolve and reject are put into pendingIq under it, and
\* xmpp.send(stanza) is called
XmppSendIq ==
    /\ xmpp
    /\ Len(iqs) < MaxIqs
    /\ iqs' = Append(iqs, [id |-> Len(iqs) + 1, state |-> "waiting", send |-> "pending"])
    /\ pendingIq' = pendingIq \cup {Len(iqs) + 1}
    /\ UNCHANGED <<storeVars, netVars, apiVars, clientVars, iqVars, log, chanVars, norm, saves>>

\* xmpp.send(stanza) resolves: nothing is done
XmppSendResolves ==
    \E i \in DOMAIN iqs :
        /\ iqs[i].send = "pending"
        /\ iqs' = [iqs EXCEPT ![i].send = "sent"]
        /\ UNCHANGED <<storeVars, netVars, apiVars, clientVars, iqVars, log, chanVars, norm,
                       pendingIq, saves>>

\* xmpp.send(stanza) rejects: the entry is deleted and the request rejected
XmppSendRejects ==
    \E i \in DOMAIN iqs :
        /\ iqs[i].send = "pending"
        /\ pendingIq' = pendingIq \ {iqs[i].id}
        /\ iqs' = settle([iqs EXCEPT ![i].send = "failed"], iqs[i].id, "rejected")
        /\ UNCHANGED <<storeVars, netVars, apiVars, clientVars, iqVars, log, chanVars, norm,
                       saves>>

\* handleStanza on an iq stanza with this id: the pending request with the
\* same id, if there is one, is taken out of the map and resolved
HandleIq ==
    \E id \in InboundIqIds :
        /\ xmpp
        /\ pendingIq' = pendingIq \ {id}
        /\ iqs' = IF id \in pendingIq THEN settle(iqs, id, "resolved") ELSE iqs
        /\ UNCHANGED <<storeVars, netVars, apiVars, clientVars, iqVars, log, chanVars, norm,
                       saves>>

NextUpload ==
    \/ XmppSendIq
    \/ XmppSendResolves
    \/ XmppSendRejects
    \/ HandleIq
    \/ Disconnect

\* every xmpp.send() call settles; whether the server answers is up to it
SpecUpload ==
    InitUpload /\ [][NextUpload]_vars /\ WF_vars(XmppSendResolves \/ XmppSendRejects)

\* a step that resolves a request resolves one that is pending, and no
\* other request changes in it
IqResolvesOwnRequest ==
    [][\A i \in DOMAIN iqs :
          (iqs'[i].state = "resolved" /\ iqs[i].state = "waiting") =>
              /\ iqs[i].id \in pendingIq
              /\ \A j \in DOMAIN iqs \ {i} : iqs'[j] = iqs[j]]_vars

\* every request that is made settles at some time and is then out of the
\* pending map
IqSettles ==
    \A i \in 1..MaxIqs :
        (i \in DOMAIN iqs) ~>
            (i \in DOMAIN iqs /\ iqs[i].state # "waiting" /\ iqs[i].id \notin pendingIq)

\* C38: every request registered by XmppClient.sendIq settles at some time
\* and its entry leaves the pending map, whether or not an iq with its id
\* comes in and whether or not the client is disconnected; and an iq stanza
\* that comes in resolves no request but the pending one with its id
C38_EveryIqSettles == IqSettles /\ IqResolvesOwnRequest

-----------------------------------------------------------------------------
(* Properties of the manager's encryption path, under SpecOmemo *)

\* the recipient devices of the last encryptMessage call
EncRecipients == {enc.recipients[i] : i \in 1..Len(enc.recipients)}

\* the recipient devices that got a key entry in its result
EncKeyed == {enc.header.keys[i].rid : i \in 1..Len(enc.header.keys)}

\* C1: round trip: every recipient device with a valid session that runs
\* decryptMessage on the result of encryptMessage(recipients, P) gets exactly
\* P, for every P, the empty string included
C1_RoundTrip ==
    \A dev \in PeerDevs :
        (got[dev].done /\ got[dev].tampered = "no" /\ dev \in EncRecipients /\ dev \in enc.valid)
            => (got[dev].kind = "text" /\ got[dev].text = enc.message)

\* C2 as stated: when no recipient could be wrapped for, encryptMessage
\* returns a result with zero key entries and does not throw
C2_ZeroWrapsReturned ==
    (enc.called /\ EncRecipients \cap enc.hadSession = {})
        => (enc.ok /\ Len(enc.header.keys) = 0)

\* C2 amended: encryptMessage throws exactly when no recipient could be
\* wrapped for, and a returned result holds one key entry per recipient that
\* had a session, so never zero entries
C2_ZeroWrapsThrow ==
    enc.called =>
        /\ enc.ok <=> (EncRecipients \cap enc.hadSession # {})
        /\ enc.ok => (EncKeyed = EncRecipients \cap enc.hadSession /\ Len(enc.header.keys) > 0)
        /\ ~enc.ok => ~enc.header.present

\* the sole recipient has neither a session nor a usable bundle, and the call
\* has thrown
C2_Witness ==
    /\ enc.called /\ ~enc.ok
    /\ Len(enc.recipients) = 1
    /\ EncRecipients \cap (enc.hadSession \cup enc.hadBundle) = {}

\* C18: when wrapping succeeds for at least one recipient device, the call
\* returns a result in which each recipient device wrapped for has a key
\* entry and each recipient device whose wrapping failed has none
C18_FailuresIsolated ==
    enc.called =>
        /\ (\E i \in 1..Len(enc.recipients) : enc.recipients[i] \in enc.hadSession) => enc.ok
        /\ enc.ok =>
              \A i \in 1..Len(enc.recipients) :
                  (enc.recipients[i] \in enc.hadSession)
                      <=> (\E j \in 1..Len(enc.header.keys) :
                              enc.header.keys[j].rid = enc.recipients[i])

\* C18 witness: the first of two recipients failed and the second one got
\* its key entry
C18_Witness ==
    /\ enc.called /\ enc.ok
    /\ Len(enc.recipients) = 2
    /\ enc.recipients[1] \notin enc.hadSession
    /\ enc.recipients[1] \notin EncKeyed
    /\ EncKeyed = {enc.recipients[2]}

\* C19: decryptMessage on a key list without an entry for the local device
\* throws and leaves the device's store, its session with the sender
\* included, as it was
C19_NoKeyForDevice ==
    [][\A dev \in PeerDevs :
          (~got[dev].done /\ got'[dev].done /\ dev \notin EncKeyed)
              => (got'[dev].kind = "throw" /\ peers'[dev] = peers[dev])]_vars

\* C19 witness: a device that was given no key entry ran decryptMessage, which
\* threw, and its store is the one it had
C19_Witness ==
    \E dev \in PeerDevs :
        /\ enc.called /\ enc.ok /\ dev \notin EncKeyed
        /\ got[dev].done /\ got[dev].kind = "throw"
        /\ peers[dev] = PeerData(dev)

\* C3: a recipient without a session whose device has a valid published
\* bundle gets a session built first and then a key entry
C3_LazySession ==
    enc.called =>
        \A dev \in EncRecipients :
            (dev \notin enc.hadSession /\ dev \in enc.hadBundle)
                => (enc.ok /\ dev \in EncKeyed)

-----------------------------------------------------------------------------
(* Properties of the client, under SpecClient *)

\* the connect() call that ran last has returned normally
ConnectReturned == events # <<>> /\ events[Len(events)].step = "return"

\* C4: with omemoEnabled set to true in the account configuration, the
\* client built from the resolved account initialises OMEMO in connect() and
\* takes the OMEMO path in sendMessage for a direct message
C4_ConfigEnablesOmemo ==
    account.config.omemoEnabled = "true" =>
        /\ ConnectReturned => (\E i \in 1..Len(events) : events[i].step = "init")
        /\ (sent.present /\ sent.type = "chat") => sent.fetched

\* C5: the stanza sent by sendMessage carries the encrypted element exactly
\* when the fetched device list was non-empty and encryptMessage returned a
\* result, and then also the fixed fallback body and the store hint;
\* otherwise it carries the original body in plaintext and no hint
C5_EncryptedExactlyWhen ==
    sent.present =>
        /\ sent.encrypted.present <=> (Len(sent.devices) > 0 /\ sent.encOk)
        /\ sent.encrypted.present => (sent.body = Text(OmemoFallbackBody) /\ sent.store)
        /\ ~sent.encrypted.present => (sent.body = Text(sent.original) /\ ~sent.store)

\* a message was sent encrypted to a two-device list of which one device had
\* a session
C5_Witness ==
    /\ sent.present /\ sent.encrypted.present
    /\ Len(sent.devices) = 2
    /\ Len(sent.encrypted.header.keys) = 1
    /\ sent.body = Text(OmemoFallbackBody)

\* C6: when the decryption block of handleStanza throws, the message is
\* emitted with the placeholder body and the connection stays in place
C6_FailurePlaceholder ==
    (delivered.handled /\ delivered.threw) =>
        /\ delivered.emitted
        /\ delivered.body = DecryptionFailedBody
        /\ xmpp /\ online

\* a stanza with a key entry for this device failed to decrypt and arrived
\* without a cleartext body
C6_Witness ==
    /\ delivered.handled /\ delivered.threw
    /\ Len(delivered.stanza.encrypted.header.keys) > 0
    /\ ~delivered.stanza.body.present
    /\ delivered.emitted

\* C7: for a key-transport stanza (header present with a key entry for this
\* device, no payload) decryptMessage returns null, never throws, and no
\* message is emitted
C7_KeyTransportSilent ==
    (/\ delivered.handled /\ delivered.tried
     /\ delivered.stanza.encrypted.header.present
     /\ FindKey(parseEncrypted(delivered.stanza.encrypted).header.keys, MyDeviceId) # 0
     /\ noPayload(delivered.stanza.encrypted))
        => (delivered.kind = "null" /\ ~delivered.emitted)

\* C8: a connect() call on an OMEMO-enabled account whose initialisation did
\* not fail has run store init, ensureKeys, the manager construction,
\* publishBundle(id) and overwriteDeviceList([id]) in this order, whatever
\* registration id was generated
C8_ConnectOrder ==
    (/\ TruthyFlag(account.omemoEnabled)
     /\ ConnectReturned
     /\ \A i \in 1..Len(events) : events[i].step # "initFailed")
        => events = <<Step("start", <<>>), Step("init", <<>>), Step("ensureKeys", <<>>),
                      Step("manager", <<>>), Step("publishBundle", <<MyDeviceId>>),
                      Step("overwriteDeviceList", <<MyDeviceId>>), Step("return", <<>>)>>

-----------------------------------------------------------------------------
(* Properties of the store, under SpecStore *)

\* C9: ensureKeys() called right after ensureKeys() changes nothing, in
\* memory or on disk, whatever values the first call generated
C9_Idempotent ==
    [][(ret.op = "ensureKeys" /\ ret'.op = "ensureKeys") => (data' = data /\ file' = file)]_vars

\* C10: when ensureKeys() has returned, whatever the store held before, the
\* store holds an identity key pair, a registration id, a signed prekey and a
\* one-time prekey (the whole batch when this call generated), so that
\* publishBundle does not throw for missing keys
C10_KeysPresent ==
    ret.op = "ensureKeys" =>
        /\ TruthyKeyPair(data.identityKeyPair)
        /\ data.registrationId # NoReg
        /\ DOMAIN data.signedPreKeys # {}
        /\ DOMAIN data.preKeys # {}
        /\ ret.generated => (0..(PreKeyBatch - 1)) \subseteq DOMAIN data.preKeys
        /\ ~publishBundleThrows(data)

\* C11: once the store holds an identity key pair, no store call changes it,
\* and once it holds a registration id, no store call changes it
C11_IdentityImmutable ==
    [][/\ TruthyKeyPair(data.identityKeyPair) => data'.identityKeyPair = data.identityKeyPair
       /\ data.registrationId # NoReg => data'.registrationId = data.registrationId]_vars

-----------------------------------------------------------------------------
(* Properties of the trusted-identity calls, under SpecTrust *)

-----------------------------------------------------------------------------
(* Properties of the manager's publish and fetch calls, under SpecPep *)

\* C13: when overwriteDeviceList(ids) has returned without throwing, a
\* fetchDeviceList() of the own account that is answered returns exactly
\* ids, whatever the node held before
C13_OverwriteReplaces ==
    [][(/\ ret.op = "overwriteDeviceList" /\ ~ret.threw
        /\ ret'.op = "fetchDeviceList" /\ ret'.o = "result")
       => ret'.list = ret.ids]_vars

\* the device ids on the list a sequence of ids holds
Ids(list) == {list[i] : i \in 1..Len(list)}

\* C14: the list publishDeviceList(d) publishes holds d and every device id
\* the node listed when the call started, however the fetch ended
C14_PublishAdditive ==
    ret.op = "publishDeviceList" =>
        /\ ret.sentReq
        /\ Ids(ret.ids) \subseteq Ids(ret.list)
        /\ Ids(ret.before) \subseteq Ids(ret.list)

C16_NoPartialBundle ==
    ret.op = "fetchBundle" =>
        LET there == <<Peer, BundleDev>> \in DOMAIN server.bundles
            b == IF there THEN server.bundles[<<Peer, BundleDev>>] ELSE NoBundleElement
        IN  ret.bundle.found <=>
                /\ ret.o = "result" /\ there
                /\ b.identityKey.present
                /\ b.signedPreKeyPublic.present
                /\ b.signedPreKeyPublic.id # NoAttr
                /\ b.signedPreKeySignature.present
                /\ DOMAIN b.prekeys # {}

\* C17: publishBundle on a store without an identity key pair, without a
\* signed prekey or without a one-time prekey throws, sends no request and
\* leaves the node as it was; otherwise the bundle it sends holds the
\* identity public key, the first signed prekey with its id and signature,
\* and each one-time prekey of the store under its id, and is what the node
\* holds once the service accepted it
C17_PublishBundle ==
    [][ret'.op = "publishBundle" =>
          IF \/ data.identityKeyPair = NoKeyPair
             \/ DOMAIN data.signedPreKeys = {}
             \/ DOMAIN data.preKeys = {}
          THEN ret'.threw /\ ~ret'.sentReq /\ server' = server
          ELSE LET req == ret'.request
                   first == DeserSignedPreKey(data.signedPreKeys[Lowest(DOMAIN data.signedPreKeys)])
               IN  /\ ret'.sentReq
                   /\ req.identityKey.present
                   /\ base64ToArrayBuffer(req.identityKey.text) = getIdentityKeyPair(data).pubKey
                   /\ req.signedPreKeyPublic.present
                   /\ parseInt(req.signedPreKeyPublic.id) = first.keyId
                   /\ base64ToArrayBuffer(req.signedPreKeyPublic.text) = first.keyPair.pubKey
                   /\ req.signedPreKeySignature.present
                   /\ req.signedPreKeySignature.text.b64 = first.signature
                   /\ DOMAIN req.prekeys = DOMAIN data.preKeys
                   /\ \A k \in DOMAIN data.preKeys :
                         base64ToArrayBuffer(req.prekeys[k]) = DeserPreKey(data.preKeys[k]).keyPair.pubKey
                   /\ ret'.o = "result" =>
                         server'.bundles[<<Me, ret'.ids[1]>>] = req]_vars

\* C17 witness: a whole batch of one-time prekeys was published and accepted
C17_Witness ==
    /\ ret.op = "publishBundle"
    /\ ret.sentReq /\ ret.o = "result"
    /\ DOMAIN ret.request.prekeys = 0..(PreKeyBatch - 1)
    /\ server.bundles[<<Me, ret.ids[1]>>] = ret.request

\* C37: publishBundle and overwriteDeviceList return without throwing only
\* when the service answered the publish request with a result
C37_PublishErrorReported ==
    (/\ ret.op \in {"publishBundle", "overwriteDeviceList"}
     /\ ~ret.threw)
        => ret.o = "result"

-----------------------------------------------------------------------------
(* Properties of altered messages, under SpecTamper *)

-----------------------------------------------------------------------------
(* Properties of the manager's requests, under SpecIq *)

\* how the promise of a request stands with what happened to the request
Settled(req) == req.promise.state # "pending"

SettledAsSent(req) ==
    /\ req.sends = 1
    /\ req.promise.state = "resolved"
            => (req.promise.value.is = "iq" /\ req.promise.value.id = req.id)
    /\ req.promise.state = "rejected"
            => \/ req.promise.error = "send" /\ req.send = "failed"
               \/ /\ req.promise.error = "IQ Timeout"
                  /\ req.timer = "fired"
                  /\ req.elapsed >= IqTimeout
    /\ req.timer = "fired" => Settled(req)

\* C21: every request sent by sendIq settles, and settles once: it resolves
\* with an inbound iq stanza that carries the request's id, or is rejected
\* with the send error, or is rejected with the timeout error once the
\* deadline has passed without such a stanza; its stanza is sent once, and
\* its outcome never changes afterwards
C21_SettlesOnce ==
    /\ [](\A r \in DOMAIN requests : SettledAsSent(requests[r]))
    /\ [][\A r \in DOMAIN requests :
            Settled(requests[r]) => requests'[r].promise = requests[r].promise]_vars
    /\ \A r \in 1..MaxRequests :
            (r \in DOMAIN requests) ~> (r \in DOMAIN requests /\ Settled(requests[r]))

\* one request ran into its deadline and another got its reply
C21_Witness ==
    /\ \E r \in DOMAIN requests :
            requests[r].promise.state = "rejected" /\ requests[r].promise.error = "IQ Timeout"
    /\ \E r \in DOMAIN requests : requests[r].promise.state = "resolved"

\* C22: at every moment the registered stanza handlers are exactly those of
\* the requests that have not resolved, timed out or failed to send
C22_ListenersArePending ==
    listeners = {r \in DOMAIN requests : ~Settled(requests[r])}

\* a handler was registered and has been taken off in each of the three ways
C22_Witness ==
    /\ listeners = {}
    /\ \E r \in DOMAIN requests : requests[r].promise.error = "send"
    /\ \E r \in DOMAIN requests : requests[r].promise.error = "IQ Timeout"

-----------------------------------------------------------------------------
(* Properties of the log, under SpecLog *)

\* C23: no log line written for a message that was sent or received
\* OMEMO-encrypted carries the text of that message
C23_NoPlaintextLogged ==
    /\ (sent.present /\ sent.encrypted.present) =>
            \A i \in 1..Len(log) : log[i].text = <<>>
    /\ (delivered.handled /\ delivered.tried) =>
            \A i \in 1..Len(log) : log[i].text = <<>>

-----------------------------------------------------------------------------
(* Properties of the store's record, under SpecWrite and SpecStore *)

\* C24: when a call that changes the store returns, the record is the whole
\* in-memory state as save() writes it, init() on that record gives that
\* state, and a new store object that runs init() next holds it
C24_WriteThrough ==
    [][/\ ret'.op \notin {"none", "init"} => (file' = save(data') /\ init(file') = data')
       /\ (ret.op \notin {"none", "init"} /\ ret'.op = "init") => data' = data]_vars

\* a first-use isTrustedIdentity call has returned and the store was
\* started again from the record
C24_Witness ==
    /\ ret.op = "init"
    /\ data.identityKeys # EmptyMap
    /\ data.sessions = EmptyMap
    /\ data.preKeys # EmptyMap

\* the keys under which two maps differ
Changed(m, m2) ==
    {k \in (DOMAIN m) \cup (DOMAIN m2) :
        k \notin DOMAIN m \/ k \notin DOMAIN m2 \/ m[k] # m2[k]}

\* the step changed no member of the store state but the map named, and of
\* that map at most one entry
OnlyOneEntryOf(map) ==
    /\ \A f \in (DOMAIN data) \ {map} : data'[f] = data[f]
    /\ Cardinality(Changed(data[map], data'[map])) <= 1

\* C36: storeSession, storePreKey, removePreKey, storeSignedPreKey,
\* removeSignedPreKey and saveIdentity change one entry of their own map and
\* nothing else of the store state, and no call other than init() removes a
\* session entry
C36_OwnEntryOnly ==
    [][/\ ret'.op = "storeSession" => OnlyOneEntryOf("sessions")
       /\ ret'.op \in {"storePreKey", "removePreKey"} => OnlyOneEntryOf("preKeys")
       /\ ret'.op \in {"storeSignedPreKey", "removeSignedPreKey"} =>
              OnlyOneEntryOf("signedPreKeys")
       /\ ret'.op = "saveIdentity" => OnlyOneEntryOf("identityKeys")
       /\ ret'.op \notin {"none", "init"} =>
              DOMAIN data.sessions \subseteq DOMAIN data'.sessions]_vars

\* storeSession has replaced the record of one of two sessions in a store
\* that holds keys and trusted identities
C36_Witness ==
    /\ ret.op = "storeSession"
    /\ Cardinality(DOMAIN data.sessions) = 2
    /\ \E a \in DOMAIN data.sessions : loadSession(data, a) \in SessionRecords
    /\ \E a \in DOMAIN data.sessions : loadSession(data, a) \notin SessionRecords
    /\ data.identityKeys # EmptyMap
    /\ TruthyKeyPair(data.identityKeyPair)

\* C25: init() on a record that is missing or cannot be parsed does not
\* throw and leaves the store empty, and the ensureKeys() that follows
\* generates an identity key pair, a registration id, the one-time prekeys
\* and a signed prekey
C25_InitStartsFresh ==
    [][/\ (ret'.op = "init" /\ file.kind # "json") => (~ret'.threw /\ data' = EmptyData)
       /\ (ret.op = "init" /\ data = EmptyData /\ ret'.op = "ensureKeys") =>
              /\ ret'.generated
              /\ TruthyKeyPair(data'.identityKeyPair)
              /\ data'.registrationId # NoReg
              /\ Cardinality(DOMAIN data'.preKeys) = PreKeyBatch
              /\ DOMAIN data'.signedPreKeys = {SignedPreKeyId}
              /\ file' = save(data')]_vars

\* init() has run on a record that cannot be parsed
C25_Witness ==
    /\ ret.op = "init" /\ ~ret.threw
    /\ file = CorruptFile
    /\ data = EmptyData

-----------------------------------------------------------------------------
(* Properties of the one-time prekeys, under SpecPreKey *)

\* the one-time prekey of ours that peer device dev made its key agreement
\* with
AgreedPreKey(dev) == loadSession(peers[dev], Address(Me, MyDeviceId)).pre.opk

\* C26: no one-time prekey id of our published bundle is used for the key
\* agreements of two peer devices
C26_PreKeyUsedOnce ==
    \A d1 \in PeerDevs, d2 \in PeerDevs :
        (/\ d1 # d2
         /\ Address(Me, MyDeviceId) \in DOMAIN peers[d1].sessions
         /\ Address(Me, MyDeviceId) \in DOMAIN peers[d2].sessions)
        => AgreedPreKey(d1) # AgreedPreKey(d2)

-----------------------------------------------------------------------------
(* Properties of the channel's clients, under SpecChannel *)

\* C27: at most one client is connected for an account at any time
C27_OneClientPerAccount ==
    \A accountId \in AccountIds : Cardinality(Connected(accountId)) <= 1

\* no ensureClient or stopClient call is in progress for the account
Quiet(accountId) ==
    /\ stopping[accountId] = 0
    /\ \A c \in Callers : ~(callers[c].pc = "connect" /\ callers[c].accountId = accountId)

\* C35: while no ensureClient or stopClient call is in progress for an
\* account, its runtime state says running exactly when the clients map
\* holds a client for it
C35_RunningIffRegistered ==
    \A accountId \in AccountIds :
        Quiet(accountId) => (running[accountId] <=> clients[accountId] # NoClient)

-----------------------------------------------------------------------------
(* Properties of overlapping store calls, under SpecSaves *)

\* every call that was started has returned
AllReturned == saves # <<>> /\ Writing = {}

\* no later call wrote the entry this call wrote
Latest(i) ==
    \A j \in DOMAIN saves :
        (j > i /\ saves[j].op = saves[i].op) => saves[j].identifier # saves[i].identifier

\* the state has the mutation of this call
Holds(d, call) == mutate(d, call) = d

\* no call was started while the write of another was under way
Serialized == \A i \in DOMAIN saves : ~saves[i].overlapped

\* C31: persistence is not atomic across overlapping calls: the writes of
\* the whole state complete in any order, so when all calls have returned
\* the state in memory holds every call's mutation, and the file holds the
\* same only if the calls were serialized; otherwise it may be the text of
\* any of the calls, also of one that lacks a later mutation, or no record
C31_WritesNotAtomic ==
    AllReturned =>
        /\ \A i \in DOMAIN saves : Latest(i) => Holds(data, saves[i])
        /\ Serialized => file = save(data)
        /\ file # save(data) =>
               \/ file = CorruptFile
               \/ \E i \in DOMAIN saves : file = saves[i].text

\* two overlapping calls have both returned, the state in memory holds both
\* mutations, and the file is the text of the first call, which lacks the
\* mutation of the second: a restart would load a state without it
C31_Witness ==
    /\ Len(saves) = 2 /\ AllReturned
    /\ Holds(data, saves[1]) /\ Holds(data, saves[2])
    /\ file = saves[1].text
    /\ ~Holds(init(file), saves[2])

-----------------------------------------------------------------------------
(* Properties of the normalization of targets, under SpecTarget *)

\* C28: normalizeTarget and sendMessage give the target without its blanks
\* and without one leading prefix, with the resource kept
C28_Normalized ==
    norm.by # "none" => norm.out = norm.parts.bare \o norm.parts.resource

\* C29: sendMessage fetches the device list for the bare address, the target
\* without prefix and resource, and addresses the stanza to the address
\* with its resource
C29_BareLookupFullTo ==
    norm.by = "sendMessage" =>
        /\ norm.lookup = norm.parts.bare
        /\ norm.to = norm.parts.bare \o norm.parts.resource

-----------------------------------------------------------------------------
(* Properties of the messages sent, under SpecSend, and handled, under     *)
(* SpecChat                                                                *)

\* C32: a stanza sent by sendMessage carries either the encrypted element
\* with the fixed fallback body, or the original body and no encrypted
\* element, never the encrypted element with the original body; a message
\* whose encryption threw is sent with the original body
C32_OneFormOfBody ==
    sent.present =>
        /\ \/ sent.encrypted.present /\ sent.body = Text(OmemoFallbackBody)
           \/ ~sent.encrypted.present /\ sent.body = Text(sent.original)
        /\ ~(sent.encrypted.present /\ sent.body = Text(sent.original))
        /\ (sent.encCalled /\ ~sent.encOk) =>
              (~sent.encrypted.present /\ sent.body = Text(sent.original))

\* the encryption of a message threw and the message was sent with its body
C32_Witness ==
    /\ sent.present /\ sent.encCalled /\ ~sent.encOk
    /\ sent.original # <<>>
    /\ sent.body = Text(sent.original)
    /\ ~sent.encrypted.present

\* C33: a message emitted for a stanza with an encrypted element, on a
\* client with OMEMO active, has as its body the text decryptMessage
\* returned or the placeholder, never the body child of the stanza
C33_NoCleartextAsDecrypted ==
    (delivered.handled /\ delivered.tried /\ delivered.emitted) =>
        \/ delivered.threw /\ delivered.body = DecryptionFailedBody
        \/ delivered.kind = "text"

-----------------------------------------------------------------------------
(* Properties of a connection that failed to start, under SpecClient *)

\* C34: a client whose connect() failed to start the connection is
\* disconnected: this.xmpp is not set, so that the next connect(),
\* sendMessage() or sendChatState() opens a new connection
C34_FailedStartDisconnected ==
    (pc = "idle" /\ events # <<>> /\ events[Len(events)].step = "throw") => ~xmpp

-----------------------------------------------------------------------------
(* Properties of a failed OMEMO initialisation, under SpecConnect *)

\* the OMEMO initialisation of the connect() call that ran last has failed
InitFailed == \E i \in 1..Len(events) : events[i].step = "initFailed"

\* C39: a connect() whose OMEMO initialisation failed, at whichever step,
\* returns with the connection in place, and a message sent next that is not
\* encrypted goes out with its original body
C39_InitFailureNotFatal ==
    /\ [](InitFailed => (events[Len(events)].step = "return" /\ xmpp /\ online /\ pc = "idle"))
    /\ [][(InitFailed /\ sent'.present) =>
             (sent'.encrypted.present \/ sent'.body = Text(sent'.original))]_vars

\* the initialisation has failed before the manager was constructed and
\* connect() has returned
C39_Witness ==
    /\ InitFailed /\ ~omemoManager
    /\ xmpp /\ online /\ pc = "idle"

====
